---------------------------- MODULE Spec2Model ----------------------------
(***************************************************************************)
(* A model of rldd, a static analyzer that reproduces the dynamic loader's *)
(* library search and reports the dependency tree of a binary.             *)
(*                                                                         *)
(* Strings are sequences of one-character strings, so that the path and    *)
(* token operations of the source (file_name, parent, join, replace) are   *)
(* computed character by character.                                        *)
(***************************************************************************)
EXTENDS Naturals, Integers, Sequences, FiniteSets, TLC

VARIABLES
    fs,        \* the file system the run reads: files, /etc/ld.so.cache, /etc/ld.so.preload
    args,      \* the command line: input file, --ld-library-path, --ld-preload, -a
    ld_cache,  \* ElfCtx: Option<LoaderCache>, lazily loaded
    config,    \* the per-binary Config built by resolve_binary
    deptree,   \* DepTree: the arena of nodes
    stack,     \* the resolve_dependency activations (innermost first)
    pc,        \* position of the driver: "start", "resolve", "done"
    newdynstr,   \* the DT_RPATH or DT_RUNPATH string with its tokens expanded
    searchpaths, \* a SearchPathVec under construction
    output,      \* the dependency trees printed so far, one for each input
    cfg_lines,   \* parse_ld_config_txt: the lines of ld.config.txt not yet read
    properties   \* parse_ld_config_txt: the properties read so far

vars == <<fs, args, ld_cache, config, deptree, stack, pc, newdynstr, searchpaths, output,
          cfg_lines, properties>>

\* The deepest nesting of resolve_dependency activations the model follows.
MaxDepth == 8

---------------------------------------------------------------------------
\* Strings and Option values.

None == [some |-> FALSE, v |-> <<>>]
Some(x) == [some |-> TRUE, v |-> x]

starts_with(s, p) == Len(s) >= Len(p) /\ SubSeq(s, 1, Len(p)) = p

SEP == "/"

\* Index of the last separator of s, 0 when it has none.
LastSep(s) ==
    LET I == {i \in 1..Len(s) : s[i] = SEP}
    IN IF I = {} THEN 0 ELSE CHOOSE i \in I : \A j \in I : j <= i

\* s without its trailing separators.
TrimSep(s) ==
    LET I == {i \in 1..Len(s) : s[i] # SEP}
    IN IF I = {} THEN <<>> ELSE SubSeq(s, 1, CHOOSE i \in I : \A j \in I : j <= i)

is_absolute(s) == Len(s) > 0 /\ s[1] = SEP

\* std::path::Path::file_name
LastComponent(t) == SubSeq(t, LastSep(t) + 1, Len(t))

NormalName(n) == IF n = <<>> \/ n = <<".",".">> THEN None ELSE Some(n)

file_name(s) == NormalName(LastComponent(TrimSep(s)))

\* std::path::Path::parent
ParentOf(t, k) ==
    IF t = <<>> THEN None
    ELSE IF k = 0 THEN Some(<<>>)
    ELSE IF TrimSep(SubSeq(t, 1, k)) = <<>> THEN Some(<<SEP>>)
    ELSE Some(TrimSep(SubSeq(t, 1, k)))

ParentOfTrimmed(t) == ParentOf(t, LastSep(t))

parent(s) == ParentOfTrimmed(TrimSep(s))

\* std::path::Path::join
join(dir, p) ==
    IF is_absolute(p) THEN p
    ELSE IF dir # <<>> /\ dir[Len(dir)] # SEP THEN dir \o <<SEP>> \o p
    ELSE dir \o p

get_path(path) == parent(path)

unwrap_or(opt, default) == IF opt.some THEN opt.v ELSE default

get_name(path) == unwrap_or(file_name(path), <<>>)

\* str::split on one character.
RECURSIVE split(_, _)
split(s, c) ==
    LET I == {i \in 1..Len(s) : s[i] = c}
    IN IF I = {} THEN <<s>>
       ELSE LET k == CHOOSE i \in I : \A j \in I : i <= j
            IN <<SubSeq(s, 1, k - 1)>> \o split(SubSeq(s, k + 1, Len(s)), c)

\* The kernel's view of a path, which is also what canonicalize returns on a file
\* system without symbolic links: empty and "." components do not matter, and ".."
\* leaves the directory before it.
RECURSIVE Walk(_, _)
Walk(components, reached) ==
    IF components = <<>> THEN reached
    ELSE IF Head(components) = <<>> \/ Head(components) = <<".">>
    THEN Walk(Tail(components), reached)
    ELSE IF Head(components) = <<".",".">>
    THEN Walk(Tail(components),
              IF reached = <<>> THEN reached ELSE SubSeq(reached, 1, Len(reached) - 1))
    ELSE Walk(Tail(components), Append(reached, Head(components)))

RECURSIVE Joined(_)
Joined(components) ==
    IF components = <<>> THEN <<>>
    ELSE IF Len(components) = 1 THEN Head(components)
    ELSE Head(components) \o <<SEP>> \o Joined(Tail(components))

Canonical(s) ==
    (IF is_absolute(s) THEN <<SEP>> ELSE <<>>) \o Joined(Walk(split(s, SEP), <<>>))

---------------------------------------------------------------------------
\* The dependency tree.

NoIdx == [some |-> FALSE, v |-> 0]

Node(idx, val, g) == [idx |-> idx, val |-> val, parent |-> NoIdx, children |-> <<>>, g |-> g]

DepNode(path, name, mode, found) == [path |-> path, name |-> name, mode |-> mode, found |-> found]

addroot(tree, val, g) == Append(tree, Node(Len(tree), val, g))

\* An addnode that puts the new node first among its parent's children.
addnode_first(tree, val, parentidx, g) ==
    LET idx == Len(tree)
        n == [Node(idx, val, g) EXCEPT !.parent = Some(parentidx)]
    IN Append([tree EXCEPT ![parentidx + 1].children = <<idx>> \o @], n)

\* Node indices are those of the source (the root is 0); the arena sequence
\* holds node i at position i + 1.
addnode(tree, val, parentidx, g) ==
    LET idx == Len(tree)
        n == [Node(idx, val, g) EXCEPT !.parent = Some(parentidx)]
    IN Append([tree EXCEPT ![parentidx + 1].children = Append(@, idx)], n)

eqstr(self, other) ==
    IF self.mode = "Preload" \/ self.mode = "LdLibraryPath"
    THEN get_name(other) = self.name
    ELSE IF ~self.path.some \/ ~is_absolute(other)
    THEN other = self.name
    ELSE other = self.path.v \o <<SEP>> \o self.name

get(tree, val) ==
    LET I == {i \in 1..Len(tree) : eqstr(tree[i].val, val)}
    IN IF I = {} THEN None ELSE Some(tree[CHOOSE i \in I : \A j \in I : i <= j].val)

contains(tree, val) == \E i \in 1..Len(tree) : eqstr(tree[i].val, val)

---------------------------------------------------------------------------
\* Program interpreter names (elf/interp.rs).

GLIBC_INTERP ==
    { <<"l","d","-","l","i","n","u","x","-","a","a","r","c","h","6","4",".","s","o",".","1">>, <<"l","d","-","l","i","n","u","x","-","a","a","r","c","h","6","4","_","b","e",".","s","o",".","1">>, <<"l","d","-","l","i","n","u","x","-","a","r","c",".","s","o",".","2">>,
      <<"l","d","-","l","i","n","u","x","-","a","r","c","e","b",".","s","o",".","2">>, <<"l","d","-","l","i","n","u","x","-","a","r","m","h","f",".","s","o",".","3">>, <<"l","d","-","l","i","n","u","x","-","c","s","k","y","v","2","-","h","f",".","s","o",".","1">>,
      <<"l","d","-","l","i","n","u","x","-","c","s","k","y","v","2",".","s","o",".","1">>, <<"l","d","-","l","i","n","u","x","-","i","a","6","4",".","s","o",".","2">>, <<"l","d","-","l","i","n","u","x","-","l","o","o","n","g","a","r","c","h","-","l","p","6","4","d",".","s","o",".","1">>,
      <<"l","d","-","l","i","n","u","x","-","l","o","o","n","g","a","r","c","h","-","l","p","6","4","s",".","s","o",".","1">>, <<"l","d","-","l","i","n","u","x","-","m","i","p","s","n","8",".","s","o",".","1">>, <<"l","d","-","l","i","n","u","x","-","n","i","o","s","2",".","s","o",".","1">>,
      <<"l","d","-","l","i","n","u","x","-","o","r","1","k",".","s","o",".","1">>, <<"l","d","-","l","i","n","u","x","-","r","i","s","c","v","3","2","-","i","l","p","3","2",".","s","o",".","1">>, <<"l","d","-","l","i","n","u","x","-","r","i","s","c","v","3","2","-","i","l","p","3","2","d",".","s","o",".","1">>,
      <<"l","d","-","l","i","n","u","x","-","r","i","s","c","v","6","4","-","l","p","6","4",".","s","o",".","1">>, <<"l","d","-","l","i","n","u","x","-","r","i","s","c","v","6","4","-","l","p","6","4","d",".","s","o",".","1">>, <<"l","d","-","l","i","n","u","x","-","x","3","2",".","s","o",".","2">>,
      <<"l","d","-","l","i","n","u","x","-","x","8","6","-","6","4",".","s","o",".","2">>, <<"l","d","-","l","i","n","u","x",".","s","o",".","2">>, <<"l","d","-","l","i","n","u","x",".","s","o",".","3">>, <<"l","d",".","s","o",".","1">>,
      <<"l","d","6","4",".","s","o",".","1">>, <<"l","d","6","4",".","s","o",".","2">> }

is_glibc(interp) == interp.some /\ get_name(interp.v) \in GLIBC_INTERP

MUSL_SUBARCH_MIPS == { <<"r","6">>, <<"r","6","e","l">>, <<"e","l">>, <<"r","6","-","s","f">>, <<"r","6","e","l","-","s","f">>, <<"e","l","-","s","f">> }

MUSL_SUBARCH_SH ==
    { <<"e","b">>, <<"-","n","o","f","p","u">>, <<"-","f","d","p","i","c">>, <<"e","b","-","n","o","f","p","u">>, <<"e","b","-","f","d","p","i","c">>, <<"e","b","-","n","o","f","p","u","-","f","d","p","i","c">> }

\* suffixes is the set of the accepted suffixes.
check_name_suffix(interp, abi, suffixes) ==
    /\ starts_with(interp, abi)
    /\ \/ Len(interp) = Len(abi)
       \/ SubSeq(interp, Len(abi) + 1, Len(interp)) \in suffixes

is_musl_arch(interp) ==
    IF starts_with(interp, <<"a","r","m">>) THEN check_name_suffix(interp, <<"a","r","m">>, {<<"e","b">>, <<"h","f">>, <<"e","b","h","f">>})
    ELSE IF starts_with(interp, <<"a","a","r","c","h","6","4">>) THEN check_name_suffix(interp, <<"a","a","r","c","h","6","4">>, {<<"_","b","e">>})
    ELSE IF starts_with(interp, <<"m","6","8","k">>) THEN check_name_suffix(interp, <<"a","r","m">>, {<<"-","f","p","6","4">>, <<"-","s","f">>})
    ELSE IF starts_with(interp, <<"m","i","p","s","6","4">>) THEN check_name_suffix(interp, <<"m","i","p","s","6","4">>, MUSL_SUBARCH_MIPS)
    ELSE IF starts_with(interp, <<"m","i","p","s","n","3","2">>) THEN check_name_suffix(interp, <<"m","i","p","s","n","3","2">>, MUSL_SUBARCH_MIPS)
    ELSE IF starts_with(interp, <<"m","i","p","s">>) THEN check_name_suffix(interp, <<"m","i","p","s">>, MUSL_SUBARCH_MIPS)
    ELSE IF starts_with(interp, <<"p","o","w","e","r","p","c","6","4">>) THEN check_name_suffix(interp, <<"p","o","w","e","r","p","c","6","4">>, {<<"l","e">>})
    ELSE IF starts_with(interp, <<"p","o","w","e","r","p","c">>) THEN check_name_suffix(interp, <<"p","o","w","e","r","p","c">>, {<<"s","f">>})
    ELSE IF starts_with(interp, <<"m","i","c","r","o","b","l","a","z","e">>) THEN check_name_suffix(interp, <<"m","i","c","r","o","b","l","a","z","e">>, {<<"e","l">>})
    ELSE IF starts_with(interp, <<"r","i","s","c","v","6","4">>)
         THEN check_name_suffix(interp, <<"r","i","s","c","v","6","4">>, {<<"s","f">>, <<"-","s","f","-","s","p">>, <<"-","s","p">>})
    ELSE IF starts_with(interp, <<"s","h">>) THEN check_name_suffix(interp, <<"r","i","s","c","v","6","4">>, MUSL_SUBARCH_SH)
    ELSE interp \in {<<"n","t","3","2">>, <<"n","t","6","4">>, <<"o","r","1","k">>, <<"s","3","9","0","x">>, <<"x","8","6","_","6","4">>, <<"x","3","2">>, <<"i","3","8","6">>}

is_musl_split(v) ==
    IF Len(v) # 3 \/ v[2] # <<"s","o">> \/ v[3] # <<"1">> THEN FALSE
    ELSE is_musl_arch(SubSeq(v[1], Len(<<"l","d","-","m","u","s","l","-">>) + 1, Len(v[1])))

is_musl_name(name) ==
    IF ~starts_with(name, <<"l","d","-","m","u","s","l","-">>) THEN FALSE ELSE is_musl_split(split(name, "."))

is_musl(interp) == IF ~interp.some THEN FALSE ELSE is_musl_name(get_name(interp.v))

---------------------------------------------------------------------------
\* Default system directories (elf/system_dirs.rs, Linux).

get_slibdir(e_machine, ei_class) ==
    IF e_machine \in {"EM_AARCH64", "EM_ALPHA", "EM_PPC64", "EM_LOONGARCH"} THEN Some(<<"/","l","i","b","6","4">>)
    ELSE IF e_machine \in {"EM_ARCV2", "EM_ARM", "EM_CSKY", "EM_PARISC", "EM_386", "EM_68K",
                           "EM_MICROBLAZE", "EM_ALTERA_NIOS2", "EM_OPENRISC", "EM_PPC", "EM_SH"}
    THEN Some(<<"/","l","i","b">>)
    ELSE IF e_machine \in {"EM_S390", "EM_SPARC", "EM_MIPS", "EM_MIPS_RS3_LE"}
    THEN (IF ei_class = "ELFCLASS32" THEN Some(<<"/","l","i","b">>)
          ELSE IF ei_class = "ELFCLASS64" THEN Some(<<"/","l","i","b","6","4">>) ELSE None)
    ELSE IF e_machine = "EM_RISCV"
    THEN (IF ei_class = "ELFCLASS32" THEN Some(<<"/","l","i","b","3","2","/","i","l","p","3","2","d">>)
          ELSE IF ei_class = "ELFCLASS64" THEN Some(<<"/","l","i","b","6","4","/","l","p","6","4","d">>) ELSE None)
    ELSE IF e_machine = "EM_X86_64"
    THEN (IF ei_class = "ELFCLASS32" THEN Some(<<"/","l","i","b","x","3","2">>)
          ELSE IF ei_class = "ELFCLASS64" THEN Some(<<"/","l","i","b","6","4">>) ELSE None)
    ELSE None

system_dirs_of(path) ==
    IF ~path.some THEN None ELSE Some(<<path.v, <<"/","u","s","r","/">> \o path.v>>)

get_system_dirs(interp, e_machine, ei_class) == system_dirs_of(get_slibdir(e_machine, ei_class))

---------------------------------------------------------------------------
\* glibc's ld.so.cache (elf/ld_so_cache.rs).  A readable cache file is its list of
\* FileEntryNew records, with the strings the key and value offsets point at, and
\* the glibc-hwcaps names of its extension section.  The 64-bit hwcap field of an
\* entry is kept as its two 32-bit halves.

FLAG_ELF_LIBC6 == 3
FLAG_SPARC_LIB64 == 256
FLAG_IA64_LIB64 == 512
FLAG_X8664_LIB64 == 768
FLAG_S390_LIB64 == 1024
FLAG_POWERPC_LIB64 == 1280
FLAG_MIPS64_LIBN32 == 1536
FLAG_MIPS64_LIBN64 == 1792
FLAG_X8664_LIBX32 == 2048
FLAG_ARM_LIBHF == 2304
FLAG_AARCH64_LIB64 == 2560
FLAG_ARM_LIBSF == 2816
FLAG_MIPS_LIB32_NAN2008 == 3072
FLAG_MIPS64_LIBN32_NAN2008 == 3328
FLAG_MIPS64_LIBN64_NAN2008 == 3584
FLAG_RISCV_FLOAT_ABI_SOFT == 3840
FLAG_RISCV_FLOAT_ABI_DOUBLE == 4096

\* The e_flags bits of the object crate that the flag check reads.
EF_ARM_VFP_FLOAT == 1024
EF_ARM_SOFT_FLOAT == 512
EF_MIPS_NAN2008 == 1024
EF_MIPS_ABI_ON32 == 64
EF_RISCV_FLOAT_ABI_SOFT == 0
EF_RISCV_FLOAT_ABI_DOUBLE == 4

\* The operators & and | on unsigned integers.
RECURSIVE BitAnd(_, _)
BitAnd(a, b) ==
    IF a = 0 \/ b = 0 THEN 0
    ELSE (a % 2) * (b % 2) + 2 * BitAnd(a \div 2, b \div 2)

BitOr(a, b) == a + b - BitAnd(a, b)

check_file_entry_flags(flags, ei_class, e_machine, e_flags) ==
    IF e_machine = "EM_AARCH64"
    THEN ei_class = "ELFCLASS64" /\ flags = BitOr(FLAG_ELF_LIBC6, FLAG_AARCH64_LIB64)
    ELSE IF e_machine = "EM_ARM"
    THEN IF BitOr(e_flags, EF_ARM_VFP_FLOAT) = EF_ARM_VFP_FLOAT
         THEN flags = BitOr(FLAG_ARM_LIBHF, FLAG_ELF_LIBC6) \/ flags = FLAG_ELF_LIBC6
         ELSE IF BitOr(e_flags, EF_ARM_SOFT_FLOAT) = EF_ARM_SOFT_FLOAT
         THEN flags = BitOr(FLAG_ARM_LIBSF, FLAG_ELF_LIBC6) \/ flags = FLAG_ELF_LIBC6
         ELSE FALSE
    ELSE IF e_machine = "EM_IA_64"
    THEN ei_class = "ELFCLASS64" /\ flags = BitOr(FLAG_ELF_LIBC6, FLAG_IA64_LIB64)
    ELSE IF e_machine = "EM_MIPS"
    THEN IF ei_class = "ELFCLASS32"
         THEN IF BitAnd(e_flags, BitOr(EF_MIPS_NAN2008, EF_MIPS_ABI_ON32))
                 = BitOr(EF_MIPS_NAN2008, EF_MIPS_ABI_ON32)
              THEN flags = BitOr(FLAG_MIPS64_LIBN32_NAN2008, FLAG_ELF_LIBC6)
              ELSE IF BitAnd(e_flags, EF_MIPS_NAN2008) = EF_MIPS_NAN2008
              THEN flags = BitOr(FLAG_MIPS_LIB32_NAN2008, FLAG_ELF_LIBC6)
              ELSE IF BitAnd(e_flags, EF_MIPS_ABI_ON32) = EF_MIPS_ABI_ON32
              THEN flags = BitOr(FLAG_MIPS64_LIBN32, FLAG_ELF_LIBC6)
              ELSE flags = FLAG_ELF_LIBC6
         ELSE IF ei_class = "ELFCLASS64"
         THEN IF BitAnd(e_flags, EF_MIPS_NAN2008) = EF_MIPS_NAN2008
              THEN flags = BitOr(FLAG_MIPS64_LIBN64_NAN2008, FLAG_ELF_LIBC6)
              ELSE flags = BitOr(FLAG_MIPS64_LIBN64, FLAG_ELF_LIBC6)
         ELSE FALSE
    ELSE IF e_machine = "EM_PPC64" THEN flags = BitOr(FLAG_ELF_LIBC6, FLAG_POWERPC_LIB64)
    ELSE IF e_machine = "EM_RISCV"
    THEN IF BitOr(e_flags, EF_RISCV_FLOAT_ABI_SOFT) = EF_RISCV_FLOAT_ABI_SOFT
         THEN flags = BitOr(FLAG_ELF_LIBC6, FLAG_RISCV_FLOAT_ABI_SOFT)
         ELSE IF BitAnd(e_flags, EF_RISCV_FLOAT_ABI_DOUBLE) = EF_RISCV_FLOAT_ABI_DOUBLE
         THEN flags = BitOr(FLAG_ELF_LIBC6, FLAG_RISCV_FLOAT_ABI_DOUBLE)
         ELSE flags = FLAG_ELF_LIBC6
    ELSE IF e_machine = "EM_S390"
    THEN IF ei_class = "ELFCLASS32" THEN flags = FLAG_ELF_LIBC6
         ELSE ei_class = "ELFCLASS64" /\ flags = BitOr(FLAG_ELF_LIBC6, FLAG_S390_LIB64)
    ELSE IF e_machine = "EM_SPARC"
    THEN IF ei_class = "ELFCLASS32" THEN flags = FLAG_ELF_LIBC6
         ELSE ei_class = "ELFCLASS64" /\ flags = BitOr(FLAG_ELF_LIBC6, FLAG_SPARC_LIB64)
    ELSE IF e_machine = "EM_X86_64"
    THEN IF ei_class = "ELFCLASS32" THEN flags = BitOr(FLAG_ELF_LIBC6, FLAG_X8664_LIBX32)
         ELSE ei_class = "ELFCLASS64" /\ flags = BitOr(FLAG_ELF_LIBC6, FLAG_X8664_LIB64)
    ELSE flags = FLAG_ELF_LIBC6

DL_CACHE_HWCAP_ISA_LEVEL_COUNT == 10
\* DL_CACHE_HWCAP_EXTENSION >> 32
DL_CACHE_HWCAP_EXTENSION == 2^30
\* DL_CACHE_HWCAP_ISA_LEVEL_MASK + 1
DL_CACHE_HWCAP_ISA_LEVEL_MASK == 2^DL_CACHE_HWCAP_ISA_LEVEL_COUNT

\* The index into the glibc-hwcaps names: the low half, when the high half has the
\* extension bit and nothing else above the ISA level bits.
check_cache_hwcap_extension(hwcap) ==
    IF hwcap.high - (hwcap.high % DL_CACHE_HWCAP_ISA_LEVEL_MASK) = DL_CACHE_HWCAP_EXTENSION
    THEN Some(hwcap.low) ELSE None

\* Iterator::position: the 0-based index of the first element equal to x.
position(seq, x) ==
    IF \E i \in DOMAIN seq : seq[i] = x
    THEN Some((CHOOSE i \in DOMAIN seq : seq[i] = x /\ \A j \in 1..(i - 1) : seq[j] # x) - 1)
    ELSE None

check_hwcap_index(hwcapidx, hwcap_idxs, hwcap_supported) ==
    IF hwcapidx.some THEN position(hwcap_supported, hwcap_idxs[hwcapidx.v + 1]) ELSE None

\* HashMap::insert
insert(map, key, value) ==
    [k \in DOMAIN map \cup {key} |-> IF k = key THEN value ELSE map[k]]

\* The entries the binary's architecture accepts, in file order.
RECURSIVE cache_offsets(_, _, _, _)
cache_offsets(entries, ei_class, e_machine, e_flags) ==
    IF entries = <<>> THEN <<>>
    ELSE (IF check_file_entry_flags(Head(entries).flags, ei_class, e_machine, e_flags)
          THEN <<[key |-> Head(entries).key, value |-> Head(entries).value,
                  hwcap |-> check_cache_hwcap_extension(Head(entries).hwcap)]>>
          ELSE <<>>)
         \o cache_offsets(Tail(entries), ei_class, e_machine, e_flags)

\* One iteration of the loop over the entries: idx is the entry's position in the
\* supported glibc-hwcaps, when it has one.
cache_entry(off, idx, ldsocache, hwcapseen) ==
    IF off.key \in DOMAIN hwcapseen
    THEN IF idx.some /\ idx.v < hwcapseen[off.key]
         THEN [ldsocache |-> insert(ldsocache, off.key, off.value),
               hwcapseen |-> insert(hwcapseen, off.key, idx.v)]
         ELSE [ldsocache |-> ldsocache, hwcapseen |-> hwcapseen]
    ELSE [ldsocache |-> insert(ldsocache, off.key, off.value),
          hwcapseen |-> IF idx.some THEN insert(hwcapseen, off.key, idx.v) ELSE hwcapseen]

RECURSIVE cache_entries(_, _, _, _)
cache_entries(offsets, hwcap_idxs, hwcap_supported, acc) ==
    IF offsets = <<>> THEN acc.ldsocache
    ELSE cache_entries(Tail(offsets), hwcap_idxs, hwcap_supported,
                       cache_entry(Head(offsets),
                                   check_hwcap_index(Head(offsets).hwcap, hwcap_idxs,
                                                     hwcap_supported),
                                   acc.ldsocache, acc.hwcapseen))

parse_ld_so_cache_new(file, hwcap_supported, ei_class, e_machine, e_flags) ==
    cache_entries(cache_offsets(file.entries, ei_class, e_machine, e_flags),
                  file.hwcap_idxs, hwcap_supported,
                  [ldsocache |-> <<>>, hwcapseen |-> <<>>])

\* parse_ld_so_cache of /etc/ld.so.cache: None when the file cannot be read or parsed.
parse_ld_so_cache(ei_class, e_machine, e_flags) ==
    IF fs.etc_ld_so_cache.some
    THEN Some(parse_ld_so_cache_new(fs.etc_ld_so_cache.v, fs.hwcap_supported,
                                    ei_class, e_machine, e_flags))
    ELSE None

---------------------------------------------------------------------------
\* ELF objects (elf.rs).  A file of fs.files holds what the ELF reader extracts
\* from it; kind "other" is a file the reader rejects.

S_libc_so == <<"l","i","b","c",".","s","o">>

handle_loader(elc) == [elc EXCEPT !.is_musl = is_musl(elc.interp)]

parse_object(file) ==
    IF file.kind = "elf" THEN Some(handle_loader(file.elf)) ELSE None

check_elf_header(elc) == elc.ei_osabi = "ELFOSABI_SYSV" \/ elc.ei_osabi = "ELFOSABI_GNU"

match_elf_header(a1, a2) ==
    a1.ei_class = a2.ei_class /\ a1.ei_data = a2.ei_data /\ a1.e_machine = a2.e_machine

match_elf_soname(dtneeded, elc) ==
    IF elc.soname.some THEN dtneeded = elc.soname.v ELSE TRUE

match_elf_name(melc, dtneeded, elc) ==
    IF ~check_elf_header(elc) \/ ~match_elf_header(melc, elc) THEN FALSE
    ELSE IF dtneeded.some THEN match_elf_soname(dtneeded.v, elc)
    ELSE TRUE

\* open_elf_file once the file is parsed: the checks against the parent object.
open_elf_file_match(elc, melc, dtneeded, preload) ==
    IF ~elc.some THEN None
    ELSE IF melc.some /\ ~preload /\ ~match_elf_name(melc.v, dtneeded, elc.v) THEN None
    ELSE elc

open_elf_file_at(path, melc, dtneeded, preload) ==
    IF path \notin DOMAIN fs.files THEN None
    ELSE open_elf_file_match(parse_object(fs.files[path]), melc, dtneeded, preload)

open_elf_file(filename, melc, dtneeded, preload) ==
    open_elf_file_at(Canonical(filename), melc, dtneeded, preload)

parse_ld_so_preload == fs.etc_ld_so_preload

\* The loader cache read again for every binary of a glibc interpreter.
load_so_cache_reload(cache, elc) ==
    IF is_glibc(elc.interp)
    THEN parse_ld_so_cache(elc.ei_class, elc.e_machine, elc.e_flags)
    ELSE cache

load_so_cache(cache, elc) ==
    IF is_glibc(elc.interp) /\ ~cache.some
    THEN parse_ld_so_cache(elc.ei_class, elc.e_machine, elc.e_flags)
    ELSE cache

load_ld_so_preload(interp) == IF is_glibc(interp) THEN parse_ld_so_preload ELSE <<>>

ResolvedDependency(elc, path, mode) ==
    IF elc.some THEN Some([elc |-> elc.v, path |-> path, mode |-> mode]) ELSE None

\* The first of two lookups that succeeds.
OrElse(first, second) == IF first.some THEN first ELSE second

\* A loop over a search list: the first directory that holds a compatible object.
RECURSIVE SearchIn(_, _, _, _)
SearchIn(dirs, dtneeded, elc, mode) ==
    IF dirs = <<>> THEN None
    ELSE OrElse(ResolvedDependency(
                    open_elf_file(join(Head(dirs), dtneeded), Some(elc), Some(dtneeded), FALSE),
                    Head(dirs), mode),
                SearchIn(Tail(dirs), dtneeded, elc, mode))

resolve_dependency_ld_cache(dtneeded, cfg, elc) ==
    IF cfg.ld_cache.some /\ dtneeded \in DOMAIN cfg.ld_cache.v
    THEN ResolvedDependency(
             open_elf_file(cfg.ld_cache.v[dtneeded], Some(elc), Some(dtneeded), FALSE),
             cfg.ld_cache.v[dtneeded], "LdCache")
    ELSE None

\* The lookup with LD_LIBRARY_PATH consulted before the rpath.
resolve_dependency_1_library_path_first(dtneeded, cfg, elc, preload) ==
    IF is_absolute(dtneeded)
    THEN ResolvedDependency(open_elf_file(dtneeded, Some(elc), Some(dtneeded), preload),
                            dtneeded, IF preload THEN "Preload" ELSE "Direct")
    ELSE OrElse(SearchIn(cfg.ld_library_path, dtneeded, elc, "LdLibraryPath"),
         OrElse(IF elc.runpath = <<>> THEN SearchIn(elc.rpath, dtneeded, elc, "DtRpath")
                ELSE None,
         OrElse(SearchIn(elc.runpath, dtneeded, elc, "DtRunpath"),
                IF elc.nodeflibs THEN None
                ELSE OrElse(resolve_dependency_ld_cache(dtneeded, cfg, elc),
                            SearchIn(cfg.system_dirs, dtneeded, elc, "SystemDirs")))))

\* The lookup with the default libraries consulted whatever the object's flags.
resolve_dependency_1_default_libs(dtneeded, cfg, elc, preload) ==
    IF is_absolute(dtneeded)
    THEN ResolvedDependency(open_elf_file(dtneeded, Some(elc), Some(dtneeded), preload),
                            dtneeded, IF preload THEN "Preload" ELSE "Direct")
    ELSE OrElse(IF elc.runpath = <<>> THEN SearchIn(elc.rpath, dtneeded, elc, "DtRpath")
                ELSE None,
         OrElse(SearchIn(cfg.ld_library_path, dtneeded, elc, "LdLibraryPath"),
         OrElse(SearchIn(elc.runpath, dtneeded, elc, "DtRunpath"),
         OrElse(resolve_dependency_ld_cache(dtneeded, cfg, elc),
                SearchIn(cfg.system_dirs, dtneeded, elc, "SystemDirs")))))


resolve_dependency_1(dtneeded, cfg, elc, preload) ==
    IF is_absolute(dtneeded)
    THEN ResolvedDependency(open_elf_file(dtneeded, Some(elc), Some(dtneeded), preload),
                            dtneeded, IF preload THEN "Preload" ELSE "Direct")
    ELSE OrElse(IF elc.runpath = <<>> THEN SearchIn(elc.rpath, dtneeded, elc, "DtRpath")
                ELSE None,
         OrElse(SearchIn(cfg.ld_library_path, dtneeded, elc, "LdLibraryPath"),
         OrElse(SearchIn(elc.runpath, dtneeded, elc, "DtRunpath"),
                IF elc.nodeflibs THEN None
                ELSE OrElse(resolve_dependency_ld_cache(dtneeded, cfg, elc),
                            SearchIn(cfg.system_dirs, dtneeded, elc, "SystemDirs")))))

\* What the model records beside a node: the call that appended it.
Ghost(kind, dep, elc, preload, cand) ==
    [kind |-> kind, dep |-> dep, elc |-> elc, preload |-> preload, cand |-> cand]

Frame(elc, depp, items, file) == [elc |-> elc, depp |-> depp, items |-> items, file |-> file]

Items(deps, preload) == [i \in 1..Len(deps) |-> [dep |-> deps[i], preload |-> preload]]

\* A resolve_binary_arch that adds the interpreter for no binary.
resolve_binary_arch_none(elc, tree, depp) == tree

\* resolve_binary_arch: the synthetic node of a musl binary.
resolve_binary_arch(elc, tree, depp) ==
    IF ~elc.is_musl \/ ~elc.interp.some THEN tree
    ELSE addnode(tree,
                 DepNode(get_path(elc.interp.v), get_name(elc.interp.v), "SystemDirs", TRUE),
                 depp, Ghost("musl", elc.interp.v, elc, FALSE, None))

\* resolve_binary from the opened object on: the context, the configuration, the root.
resolve_binary_config(filename, elc, cache, preload, system_dirs) ==
    /\ ld_cache' = cache
    /\ IF ~system_dirs.some
       THEN /\ pc' = "done"
            /\ UNCHANGED <<config, deptree, stack>>
       ELSE /\ config' = [ld_preload |-> preload,
                          ld_library_path |-> args.ld_library_path,
                          ld_cache |-> cache,
                          system_dirs |-> system_dirs.v,
                          all |-> args.all]
            /\ deptree' = resolve_binary_arch(elc,
                              addroot(<<>>,
                                      DepNode(get_path(filename), get_name(filename),
                                              "Executable", FALSE),
                                      Ghost("root", filename, elc, FALSE, None)),
                              0)
            /\ stack' = <<Frame(elc, 0, Items(preload, TRUE) \o Items(elc.deps, FALSE),
                                filename)>>
            /\ pc' = "resolve"

resolve_binary_open(filename, elc) ==
    IF ~elc.some
    THEN /\ pc' = "done"
         /\ UNCHANGED <<ld_cache, config, deptree, stack>>
    ELSE resolve_binary_config(filename, elc.v,
                               load_so_cache(ld_cache, elc.v),
                               args.ld_preload \o load_ld_so_preload(elc.v.interp),
                               get_system_dirs(elc.v.interp, elc.v.e_machine, elc.v.ei_class))

\* resolve_binary up to its two loops, which the activation it leaves on the stack runs.
ResolveBinary ==
    /\ pc = "start"
    /\ resolve_binary_open(Canonical(args.file),
                           open_elf_file(Canonical(args.file), None, None, FALSE))
    /\ UNCHANGED <<fs, args, newdynstr, searchpaths, output, cfg_lines, properties>>

\* The path of the object a lookup opened.
ResolvedFile(dep, dependency) ==
    IF dep.mode \in {"Direct", "Preload", "LdCache"} THEN Canonical(dep.path)
    ELSE Canonical(join(dep.path, dependency))

\* A dependency resolved with nothing but its own search lists.
InheritRpath_never(depelc, elc) == depelc

\* The ElfInfo a dependency's own list is resolved with.
InheritRpath(depelc, elc) ==
    IF depelc.rpath = <<>> THEN [depelc EXCEPT !.rpath = elc.rpath] ELSE depelc

\* resolve_dependency of `dependency` under node depp, whose object is elc; rest is
\* the stack once the call returns, entry the tree's node of that name, dep the lookup.
resolve_dependency(dependency, elc, depp, preload, rest, entry, dep) ==
    IF elc.is_musl /\ dependency = S_libc_so
    THEN /\ stack' = rest
         /\ UNCHANGED deptree
    ELSE IF ~elc.nodeflibs /\ entry.some
    THEN /\ stack' = rest
         /\ deptree' = IF config.all
                       THEN addnode(deptree,
                                    DepNode(entry.v.path, get_name(dependency),
                                            entry.v.mode, TRUE),
                                    depp, Ghost("backref", dependency, elc, preload, None))
                       ELSE deptree
    ELSE IF dep.some
    THEN /\ deptree' = addnode(deptree,
                               IF dep.v.mode = "Direct"
                               THEN DepNode(get_path(dependency), get_name(dependency),
                                            dep.v.mode, FALSE)
                               ELSE DepNode(Some(dep.v.path), get_name(dependency),
                                            dep.v.mode, FALSE),
                               depp,
                               Ghost("resolved", dependency, elc, preload, Some(dep.v.elc)))
         /\ stack' = <<Frame(InheritRpath(dep.v.elc, elc), Len(deptree),
                             Items(dep.v.elc.deps, preload),
                             ResolvedFile(dep.v, dependency))>> \o rest
    ELSE /\ deptree' = addnode(deptree,
                               DepNode(get_path(dependency), get_name(dependency),
                                       "NotFound", FALSE),
                               depp, Ghost("notfound", dependency, elc, preload, None))
         /\ stack' = rest

\* One call of resolve_dependency, up to the loop over the dependency's own list,
\* which the new activation on the stack runs.
ResolveDependency ==
    /\ pc = "resolve"
    /\ stack # <<>>
    /\ Head(stack).items # <<>>
    /\ Len(stack) < MaxDepth
    /\ resolve_dependency(Head(Head(stack).items).dep, Head(stack).elc, Head(stack).depp,
                          Head(Head(stack).items).preload,
                          <<[Head(stack) EXCEPT !.items = Tail(@)]>> \o Tail(stack),
                          get(deptree, Head(Head(stack).items).dep),
                          resolve_dependency_1(Head(Head(stack).items).dep, config,
                                               Head(stack).elc,
                                               Head(Head(stack).items).preload))
    /\ UNCHANGED <<fs, args, ld_cache, config, pc, newdynstr, searchpaths, output, cfg_lines, properties>>

\* A loop over a dependency list has run out: the call returns; when it is
\* resolve_binary's, the tree is complete.
Return ==
    /\ pc = "resolve"
    /\ stack # <<>>
    /\ Head(stack).items = <<>>
    /\ stack' = Tail(stack)
    /\ pc' = IF Tail(stack) = <<>> THEN "done" ELSE pc
    /\ UNCHANGED <<fs, args, ld_cache, config, deptree, newdynstr, searchpaths, output, cfg_lines, properties>>

---------------------------------------------------------------------------
\* The inputs: file systems and command lines the runs start from.

D_r == <<"/","r">>
D_l == <<"/","l">>
D_u == <<"/","u">>
D_c == <<"/","c">>
D_q == <<"/","q">>
D_lib64 == <<"/","l","i","b","6","4">>
N_a == <<"a">>
N_b == <<"b">>
P_app == <<"/","x","/","a","p","p">>
I_glibc == <<"/","l","i","b","6","4","/","l","d","-","l","i","n","u","x","-","x","8","6","-","6","4",".","s","o",".","2">>
I_musl == <<"/","l","i","b","/","l","d","-","m","u","s","l","-","x","8","6","_","6","4",".","s","o",".","1">>

ElfObj(interp, soname, rpath, runpath, nodeflibs, deps) ==
    [ei_class |-> "ELFCLASS64", ei_data |-> "ELFDATA2LSB", ei_osabi |-> "ELFOSABI_SYSV",
     e_machine |-> "EM_X86_64", e_flags |-> 0,
     interp |-> interp, soname |-> soname, rpath |-> rpath, runpath |-> runpath,
     nodeflibs |-> nodeflibs, is_musl |-> FALSE, deps |-> deps]

Variant(kind, name, base) ==
    IF kind = "other" THEN [kind |-> "other", elf |-> base]
    ELSE [kind |-> "elf",
          elf |-> IF kind = "named" THEN [base EXCEPT !.soname = Some(name)]
                  ELSE IF kind = "soname" THEN [base EXCEPT !.soname = Some(<<"z","z">>)]
                  ELSE IF kind = "class" THEN [base EXCEPT !.ei_class = "ELFCLASS32"]
                  ELSE IF kind = "data" THEN [base EXCEPT !.ei_data = "ELFDATA2MSB"]
                  ELSE IF kind = "machine" THEN [base EXCEPT !.e_machine = "EM_AARCH64"]
                  ELSE IF kind = "osabi" THEN [base EXCEPT !.ei_osabi = "ELFOSABI_FREEBSD"]
                  ELSE base]

\* The file of the given kind at dir/name, or nothing when the kind is "none".
Place(dir, name, kind, base) ==
    IF kind = "none" THEN {} ELSE {<<join(dir, name), Variant(kind, name, base)>>}

FnOf(pairs) == [p \in {x[1] : x \in pairs} |-> (CHOOSE x \in pairs : x[1] = p)[2]]

World(files, cache, file, llp, preload, all) ==
    [files |-> FnOf(files), etc_ld_so_cache |-> cache, etc_ld_so_preload |-> <<>>,
     file |-> file, ld_library_path |-> llp, ld_preload |-> preload, all |-> all]

Leaf == ElfObj(None, None, <<>>, <<>>, FALSE, <<>>)

\* A cache file with one plain x86-64 entry for each name, in directory /c.
CacheOf(names) ==
    Some([entries |-> [i \in DOMAIN names |->
                          [flags |-> FLAG_ELF_LIBC6 + FLAG_X8664_LIB64, key |-> names[i],
                           value |-> join(D_c, names[i]), hwcap |-> [high |-> 0, low |-> 0]]],
          hwcap_idxs |-> <<>>])

\* One dependency, a candidate of any kind at every stage of the search.
SearchWorlds ==
    { World({<<P_app, Variant("ok", N_a, ElfObj(Some(I_glibc), None, rp, ru, nf, <<N_a>>))>>}
            \cup Place(D_r, N_a, kr, Leaf) \cup Place(D_l, N_a, kl, Leaf)
            \cup Place(D_u, N_a, ku, Leaf) \cup Place(D_c, N_a, kc, Leaf)
            \cup Place(D_lib64, N_a, ks, Leaf),
            CacheOf(<<N_a>>), P_app, <<D_l>>, <<>>, FALSE) :
        rp \in {<<>>, <<D_r>>}, ru \in {<<>>, <<D_u>>}, nf \in BOOLEAN,
        kr \in {"none", "ok", "class", "osabi"}, kl \in {"none", "ok", "soname", "data"},
        ku \in {"none", "ok", "other"}, kc \in {"none", "ok", "machine"},
        ks \in {"none", "ok", "named"} }

\* Graphs of two libraries: repeated, mutual and self references, absolute names.
GraphWorlds ==
    { World({<<P_app, Variant("ok", N_a, ElfObj(Some(I_glibc), None, rp, <<>>, nf, rd))>>}
            \cup Place(D_r, N_a, "ok", ElfObj(None, None, arp, <<>>, anf, ad))
            \cup Place(D_l, N_a, "ok", ElfObj(None, None, arp, <<>>, anf, ad))
            \cup Place(D_lib64, N_a, "ok", ElfObj(None, None, arp, <<>>, anf, ad))
            \cup Place(D_r, N_b, kb, ElfObj(None, None, <<>>, <<>>, bnf, bd))
            \cup Place(D_lib64, N_b, "ok", ElfObj(None, None, <<>>, <<>>, bnf, bd)),
            None, P_app, <<>>, <<>>, all) :
        rp \in {<<>>, <<D_r>>}, nf \in BOOLEAN,
        rd \in {<<N_a>>, <<N_a, N_b>>, <<N_a, N_a>>, <<join(D_r, N_a), N_a>>,
                <<N_a, join(D_l, N_a)>>},
        arp \in {<<>>, <<D_q>>}, anf \in BOOLEAN, ad \in {<<>>, <<N_b>>, <<N_a>>},
        kb \in {"none", "ok"}, bnf \in BOOLEAN, bd \in {<<>>, <<N_a>>},
        all \in BOOLEAN }

\* musl and glibc binaries, libc.so, preloaded objects.
MuslWorlds ==
    { World({<<P_app, Variant("ok", N_a, ElfObj(ri, None, <<>>, <<>>, FALSE, rd))>>}
            \cup Place(D_lib64, N_a, "ok", ElfObj(ai, None, <<>>, <<>>, FALSE, ad))
            \cup Place(D_l, N_a, kp, ElfObj(ai, None, <<>>, <<>>, FALSE, ad))
            \cup Place(D_lib64, S_libc_so, kc, Leaf),
            CacheOf(<<N_a>>), P_app, <<>>, pl, all) :
        ri \in {None, Some(I_glibc), Some(I_musl)},
        rd \in {<<S_libc_so>>, <<S_libc_so, N_a>>, <<N_a, S_libc_so>>},
        ai \in {None, Some(I_musl)}, ad \in {<<>>, <<S_libc_so>>},
        kp \in {"named", "class"}, kc \in {"none", "ok"},
        pl \in {<<>>, <<join(D_l, N_a)>>}, all \in BOOLEAN }

\* Inputs resolve_binary gives up on: no such file, not an object, unknown machine.
ErrorWorlds ==
    { World(Place(<<"/","x">>, <<"a","p","p">>, k, ElfObj(Some(I_glibc), None, <<>>, <<>>, FALSE, <<N_a>>)),
            None, P_app, <<>>, <<>>, FALSE) :
        k \in {"none", "other"} }
    \cup { World({<<P_app, [kind |-> "elf",
                           elf |-> [ElfObj(Some(I_glibc), None, <<>>, <<>>, FALSE, <<N_a>>)
                                        EXCEPT !.e_machine = "EM_NONE"]]>>},
                 None, P_app, <<>>, <<>>, FALSE) }

Worlds == SearchWorlds \cup GraphWorlds \cup MuslWorlds \cup ErrorWorlds

NoConfig ==
    [ld_preload |-> <<>>, ld_library_path |-> <<>>, ld_cache |-> None, system_dirs |-> <<>>,
     all |-> FALSE]

Init ==
    /\ \E w \in Worlds :
          /\ fs = [files |-> w.files, etc_ld_so_cache |-> w.etc_ld_so_cache,
                   hwcap_supported |-> <<>>,
                   etc_ld_so_preload |-> w.etc_ld_so_preload]
          /\ args = [file |-> w.file, ld_library_path |-> w.ld_library_path,
                     ld_preload |-> w.ld_preload, all |-> w.all]
    /\ ld_cache = None
    /\ config = NoConfig
    /\ deptree = <<>>
    /\ stack = <<>>
    /\ pc = "start"
    /\ newdynstr = <<>>
    /\ searchpaths = <<>>
    /\ output = <<>>
    /\ cfg_lines = <<>>
    /\ properties = <<>>

Next == ResolveBinary \/ ResolveDependency \/ Return

Spec == Init /\ [][Next]_vars

---------------------------------------------------------------------------
\* Properties of the ELF resolver.

NodeIds == 1..Len(deptree)

\* Nodes a lookup produced: a resolved object or a NotFound entry.
IsLookup(n) == n.g.kind \in {"resolved", "notfound"}

\* The file at path is an object the loader of the parent pelc accepts for dep.
Compatible(path, dep, pelc) ==
    /\ path \in DOMAIN fs.files
    /\ fs.files[path].kind = "elf"
    /\ fs.files[path].elf.ei_osabi \in {"ELFOSABI_SYSV", "ELFOSABI_GNU"}
    /\ fs.files[path].elf.ei_class = pelc.ei_class
    /\ fs.files[path].elf.ei_data = pelc.ei_data
    /\ fs.files[path].elf.e_machine = pelc.e_machine
    /\ fs.files[path].elf.soname.some => fs.files[path].elf.soname.v = dep

\* The directories of a search list that hold a compatible candidate for dep.
Holding(dirs, dep, pelc) ==
    {i \in 1..Len(dirs) : Compatible(Canonical(dirs[i] \o <<SEP>> \o dep), dep, pelc)}

RpathStage(n) ==
    IF n.g.elc.runpath = <<>> THEN Holding(n.g.elc.rpath, n.g.dep, n.g.elc) ELSE {}

LibraryPathStage(n) == Holding(config.ld_library_path, n.g.dep, n.g.elc)

RunpathStage(n) == Holding(n.g.elc.runpath, n.g.dep, n.g.elc)

CacheHolds(n) ==
    /\ config.ld_cache.some
    /\ n.g.dep \in DOMAIN config.ld_cache.v
    /\ Compatible(Canonical(config.ld_cache.v[n.g.dep]), n.g.dep, n.g.elc)

CacheStage(n) == ~n.g.elc.nodeflibs /\ CacheHolds(n)

SystemHolding(n) == Holding(config.system_dirs, n.g.dep, n.g.elc)

SystemStage(n) == IF n.g.elc.nodeflibs THEN {} ELSE SystemHolding(n)

Least(I) == CHOOSE i \in I : \A j \in I : i <= j

\* The mode and path the search order gives the lookup of node n.
Expected(n) ==
    IF RpathStage(n) # {} THEN <<"DtRpath", Some(n.g.elc.rpath[Least(RpathStage(n))])>>
    ELSE IF LibraryPathStage(n) # {}
    THEN <<"LdLibraryPath", Some(config.ld_library_path[Least(LibraryPathStage(n))])>>
    ELSE IF RunpathStage(n) # {}
    THEN <<"DtRunpath", Some(n.g.elc.runpath[Least(RunpathStage(n))])>>
    ELSE IF CacheStage(n) THEN <<"LdCache", Some(config.ld_cache.v[n.g.dep])>>
    ELSE IF SystemStage(n) # {}
    THEN <<"SystemDirs", Some(config.system_dirs[Least(SystemStage(n))])>>
    ELSE <<"NotFound", Some(<<>>)>>

\* C1: a dependency whose NEEDED string is not absolute gets the mode of the first
\* stage, in the order rpath (consulted only when the parent's runpath is empty),
\* LD_LIBRARY_PATH, runpath, loader cache, system directories (the last two consulted
\* only when the parent's nodeflibs is unset), that holds a compatible candidate, with
\* that stage's first such directory as path; so a node with mode LdLibraryPath has
\* no compatible candidate in an rpath directory of a runpath-less parent.
C1_SearchOrder ==
    \A i \in NodeIds :
        (IsLookup(deptree[i]) /\ ~is_absolute(deptree[i].g.dep)) =>
            /\ deptree[i].val.mode = Expected(deptree[i])[1]
            /\ deptree[i].val.path = Expected(deptree[i])[2]
            /\ deptree[i].val.mode = "LdLibraryPath" => RpathStage(deptree[i]) = {}

\* A node found through LD_LIBRARY_PATH although the rpath of its runpath-less parent
\* holds a file of that name, an incompatible one.
C1_Witness ==
    \E i \in NodeIds :
        /\ deptree[i].val.mode = "LdLibraryPath"
        /\ ~deptree[i].val.found
        /\ deptree[i].g.elc.runpath = <<>>
        /\ \E k \in 1..Len(deptree[i].g.elc.rpath) :
              Canonical(join(deptree[i].g.elc.rpath[k], deptree[i].g.dep)) \in DOMAIN fs.files

\* C2: the resolver terminates on every finite input.  A run that terminates never
\* nests resolve_dependency deeper than the number of objects of the file system: a
\* deeper nesting expands one object inside its own expansion, which then repeats
\* without end.
C2_Terminates == Len(stack) <= Cardinality(DOMAIN fs.files)

\* C3: of two distinct nodes with the same name, at most one has found = FALSE.
C3_DedupSafety ==
    \A i, j \in NodeIds :
        (i # j /\ deptree[i].val.name = deptree[j].val.name) =>
            (deptree[i].val.found \/ deptree[j].val.found)

\* The entry came from a NEEDED list, not from a preload slot of resolve_binary.
FromNeeded(n) == ~(n.g.preload /\ n.parent.v = 0)

\* C4: every node emitted with a mode other than NotFound for a candidate file,
\* through any stage and also from a preload slot, has the class, data encoding and
\* machine of its parent, and, when a NEEDED string drove the lookup, a soname that
\* is absent or equal to that string.
C4_Compatibility ==
    \A i \in NodeIds :
        deptree[i].g.kind = "resolved" =>
            /\ deptree[i].g.cand.v.ei_class = deptree[i].g.elc.ei_class
            /\ deptree[i].g.cand.v.ei_data = deptree[i].g.elc.ei_data
            /\ deptree[i].g.cand.v.e_machine = deptree[i].g.elc.e_machine
            /\ (FromNeeded(deptree[i]) /\ deptree[i].g.cand.v.soname.some) =>
                   deptree[i].g.cand.v.soname.v = deptree[i].g.dep

\* The nodeflibs flag of the object whose NEEDED list node n comes from, as read
\* from that object's file.
ParentFlag(n) ==
    IF n.parent.v = 0 THEN deptree[1].g.elc.nodeflibs
    ELSE deptree[n.parent.v + 1].g.cand.v.nodeflibs

NoEarlierStage(n) ==
    /\ ~is_absolute(n.g.dep)
    /\ RpathStage(n) = {}
    /\ LibraryPathStage(n) = {}
    /\ RunpathStage(n) = {}

\* C5: a dependency of an object with nodeflibs set is never found in the loader
\* cache or the system directories, and is NotFound when no earlier stage finds it;
\* only the flag of the immediate parent counts: under a parent without the flag the
\* cache and the system directories are consulted, whatever the flags further up.
C5_NoDefaultLibs ==
    \A i \in NodeIds :
        IsLookup(deptree[i]) =>
            /\ ParentFlag(deptree[i]) =>
                   deptree[i].val.mode \notin {"LdCache", "SystemDirs"}
            /\ (ParentFlag(deptree[i]) /\ NoEarlierStage(deptree[i])) =>
                   deptree[i].val.mode = "NotFound"
            /\ (/\ ~ParentFlag(deptree[i])
                /\ NoEarlierStage(deptree[i])
                /\ (CacheHolds(deptree[i]) \/ SystemHolding(deptree[i]) # {})) =>
                   deptree[i].val.mode \in {"LdCache", "SystemDirs"}

\* Under a root with nodeflibs: a direct child that only the system directories hold
\* is NotFound, and a grandchild whose parent lacks the flag is found there.
C5_Witness ==
    /\ deptree # <<>>
    /\ deptree[1].g.elc.nodeflibs
    /\ \E i \in NodeIds :
          /\ deptree[i].parent = Some(0)
          /\ deptree[i].val.mode = "NotFound"
          /\ SystemHolding(deptree[i]) # {}
    /\ \E i \in NodeIds :
          /\ deptree[i].parent.v > 0
          /\ ~ParentFlag(deptree[i])
          /\ deptree[i].val.mode = "SystemDirs"
          /\ ~deptree[i].val.found

MuslNodes == {i \in NodeIds : deptree[i].g.kind = "musl"}

\* C7: under a root flagged is_musl the node naming the interpreter is added exactly
\* once, as the second node of the arena and the first child of the root, ahead of
\* every preload and NEEDED entry; and no node comes from a NEEDED string libc.so
\* of a parent flagged is_musl.
C7_MuslQuirk ==
    deptree # <<>> =>
        /\ deptree[1].g.elc.is_musl =>
               /\ MuslNodes = {2}
               /\ deptree[2].parent = Some(0)
               /\ deptree[1].children[1] = deptree[2].idx
               /\ deptree[1].g.elc.interp.v =
                      deptree[2].val.path.v \o <<SEP>> \o deptree[2].val.name
        /\ \A i \in NodeIds :
               deptree[i].g.kind \in {"resolved", "notfound", "backref"} =>
                   ~(deptree[i].g.elc.is_musl /\ deptree[i].g.dep = S_libc_so)

\* A finished tree of a musl root that lists libc.so and has a preloaded object.
C7_Witness ==
    /\ pc = "done"
    /\ deptree # <<>>
    /\ deptree[1].g.elc.is_musl
    /\ \E k \in 1..Len(deptree[1].g.elc.deps) : deptree[1].g.elc.deps[k] = S_libc_so
    /\ \E i \in NodeIds : deptree[i].val.mode = "Preload"

\* The rpath and runpath the entries of node n's NEEDED list are resolved with.
OwnLists(n) ==
    IF n.g.kind = "root" THEN n.g.elc ELSE n.g.cand.v

ParentNode(n) == deptree[n.parent.v + 1]

NodeAt(i) == deptree[i + 1]

\* The arena indexes a pre-order traversal from node i visits, children in list order.
RECURSIVE PreOrder(_)
RECURSIVE PreOrderAll(_)
PreOrder(i) == <<i>> \o PreOrderAll(NodeAt(i).children)

PreOrderAll(children) ==
    IF children = <<>> THEN <<>>
    ELSE PreOrder(Head(children)) \o PreOrderAll(Tail(children))

\* The list a node's children are discovered from: for the root the preloads and
\* then its NEEDED entries, for a loaded object its NEEDED entries.
ItemsOf(n) ==
    IF n.g.kind = "root" THEN Items(config.ld_preload, TRUE) \o Items(n.g.elc.deps, FALSE)
    ELSE IF n.g.kind = "resolved" THEN Items(n.g.cand.v.deps, n.g.preload)
    ELSE <<>>

\* The entries the children of node n were added for, in the order of its children
\* (the interpreter node of a musl binary stands for no entry).
ChildItems(n) ==
    [k \in DOMAIN SelectSeq(n.children, LAMBDA c : NodeAt(c).g.kind # "musl") |->
        [dep |-> NodeAt(SelectSeq(n.children,
                                  LAMBDA c : NodeAt(c).g.kind # "musl")[k]).g.dep,
         preload |-> NodeAt(SelectSeq(n.children,
                                      LAMBDA c : NodeAt(c).g.kind # "musl")[k]).g.preload]]

\* a is b with some of its elements left out.
RECURSIVE IsSubSeq(_, _)
IsSubSeq(a, b) ==
    IF a = <<>> THEN TRUE
    ELSE IF b = <<>> THEN FALSE
    ELSE IF Head(a) = Head(b) THEN IsSubSeq(Tail(a), Tail(b))
    ELSE IsSubSeq(a, Tail(b))

\* C15: the root is node 0 and has no parent; every other node has one parent, of
\* a lower index, and is once in that parent's children; the arena order is the
\* pre-order of the tree, and the children of every node follow the order of the
\* list they come from: the root's preloads first, then NEEDED entries in file order.
C15_TreeOrder ==
    deptree # <<>> =>
        /\ NodeAt(0).idx = 0 /\ ~NodeAt(0).parent.some
        /\ \A i \in 1..(Len(deptree) - 1) :
              /\ NodeAt(i).idx = i
              /\ NodeAt(i).parent.some
              /\ NodeAt(i).parent.v < i
              /\ Cardinality({k \in DOMAIN NodeAt(NodeAt(i).parent.v).children :
                                NodeAt(NodeAt(i).parent.v).children[k] = i}) = 1
              /\ \A j \in 0..(Len(deptree) - 1) :
                    j # NodeAt(i).parent.v =>
                        \A k \in DOMAIN NodeAt(j).children : NodeAt(j).children[k] # i
        /\ PreOrder(0) = [i \in 1..Len(deptree) |-> i - 1]
        /\ \A i \in 0..(Len(deptree) - 1) :
              IsSubSeq(ChildItems(NodeAt(i)), ItemsOf(NodeAt(i)))

\* A finished tree with a preloaded child and a NEEDED child of the root and a node
\* below one of them.
C15_Witness ==
    /\ pc = "done"
    /\ \E i, j, k \in 1..(Len(deptree) - 1) :
          /\ i < j
          /\ NodeAt(i).parent = Some(0) /\ NodeAt(i).g.preload
          /\ NodeAt(j).parent = Some(0) /\ ~NodeAt(j).g.preload
          /\ NodeAt(k).parent.v # 0

\* The file a lookup by absolute path opens is an object its parent's loader takes:
\* the headers agree, and the soname, for an entry of a NEEDED list.
Opens(n) ==
    /\ Canonical(n.g.dep) \in DOMAIN fs.files
    /\ fs.files[Canonical(n.g.dep)].kind = "elf"
    /\ fs.files[Canonical(n.g.dep)].elf.ei_osabi \in {"ELFOSABI_SYSV", "ELFOSABI_GNU"}
    /\ fs.files[Canonical(n.g.dep)].elf.ei_class = n.g.elc.ei_class
    /\ fs.files[Canonical(n.g.dep)].elf.ei_data = n.g.elc.ei_data
    /\ fs.files[Canonical(n.g.dep)].elf.e_machine = n.g.elc.e_machine
    /\ (FromNeeded(n) /\ fs.files[Canonical(n.g.dep)].elf.soname.some) =>
           fs.files[Canonical(n.g.dep)].elf.soname.v = n.g.dep

\* C30: a lookup of an absolute NEEDED string opens that path and nothing else:
\* when the file opens and is compatible the node has mode Direct (Preload for an
\* entry of a preload slot, and only then), with the directory and the file name of
\* the string as path and name; when it does not, the node is NotFound.
C30_AbsoluteDirect ==
    \A i \in NodeIds :
        (IsLookup(deptree[i]) /\ is_absolute(deptree[i].g.dep)) =>
            /\ deptree[i].val.path = get_path(deptree[i].g.dep)
            /\ deptree[i].val.name = get_name(deptree[i].g.dep)
            /\ deptree[i].val.mode =
                   IF ~Opens(deptree[i]) THEN "NotFound"
                   ELSE IF FromNeeded(deptree[i]) THEN "Direct" ELSE "Preload"

---------------------------------------------------------------------------
\* Search path sets (search_path.rs).

\* fs::metadata: the device and inode a path leads to, None when it leads nowhere.
metadata(entry) ==
    IF entry # <<>> /\ Canonical(entry) \in DOMAIN fs.meta
    THEN Some(fs.meta[Canonical(entry)])
    ELSE None

SearchPath(path, meta) == [path |-> path, dev |-> meta.dev, ino |-> meta.ino]

search_path_of(entry, meta) == IF meta.some THEN Some(SearchPath(entry, meta.v)) ELSE None

get_search_path(entry) == search_path_of(entry, metadata(entry))

\* Vec::contains with the derived PartialEq of SearchPath: path, dev and ino.
vec_contains(self, searchpath) == \E i \in 1..Len(self) : self[i] = searchpath

push_unless_contained(self, searchpath) ==
    IF searchpath.some /\ ~vec_contains(self, searchpath.v)
    THEN Append(self, searchpath.v)
    ELSE self

add_path(self, entry) == push_unless_contained(self, get_search_path(entry))

RECURSIVE add_paths(_, _)
add_paths(self, entries) ==
    IF entries = <<>> THEN self
    ELSE add_paths(add_path(self, Head(entries)), Tail(entries))

from_string(string) == add_paths(<<>>, split(string, ":"))

\* The directories of the machine: /usr/lib is a symbolic link to /lib, /mnt a bind
\* mount of /opt, and /srv a directory of another device with the inode number of /lib.
AllMeta ==
    FnOf({ <<<<"/","l","i","b">>, [dev |-> 1, ino |-> 10]>>,
           <<<<"/","u","s","r","/","l","i","b">>, [dev |-> 1, ino |-> 10]>>,
           <<<<"/","o","p","t">>, [dev |-> 1, ino |-> 20]>>,
           <<<<"/","m","n","t">>, [dev |-> 1, ino |-> 20]>>,
           <<<<"/","s","r","v">>, [dev |-> 2, ino |-> 10]>> })

Entries ==
    { <<"/","l","i","b">>, <<"/","l","i","b","/">>, <<"/","u","s","r","/","l","i","b">>, <<"/","o","p","t">>, <<"/","m","n","t">>, <<"/","s","r","v">>, <<"/","n","o","n","e">>, <<>> }

PathStrings ==
    { <<"/","l","i","b",":","/","u","s","r","/","l","i","b">>, <<"/","o","p","t",":",":","/","n","o","n","e",":","/","o","p","t">>, <<"/","s","r","v",":","/","l","i","b",":","/","s","r","v">>, <<>> }

NoArgs == [file |-> <<>>, ld_library_path |-> <<>>, ld_preload |-> <<>>, all |-> FALSE]

InitSearchPath ==
    /\ \E S \in SUBSET DOMAIN AllMeta : fs = [meta |-> [p \in S |-> AllMeta[p]]]
    /\ args = NoArgs
    /\ ld_cache = None
    /\ config = NoConfig
    /\ deptree = <<>>
    /\ stack = <<>>
    /\ pc = "start"
    /\ newdynstr = <<>>
    /\ searchpaths = <<>>
    /\ output = <<>>
    /\ cfg_lines = <<>>
    /\ properties = <<>>

\* One call of add_path on the set.
AddPath ==
    /\ \E entry \in Entries : searchpaths' = add_path(searchpaths, entry)
    /\ UNCHANGED <<fs, args, ld_cache, config, deptree, stack, pc, newdynstr, output, cfg_lines, properties>>

\* from_string: a new set from a colon separated list.
FromString ==
    /\ \E string \in PathStrings : searchpaths' = from_string(string)
    /\ UNCHANGED <<fs, args, ld_cache, config, deptree, stack, pc, newdynstr, output, cfg_lines, properties>>

NextSearchPath == AddPath \/ FromString

SpecSearchPath == InitSearchPath /\ [][NextSearchPath]_vars

\* C10: no two entries of a search path set share their device and inode, so that
\* a directory named through two paths is entered once; and every entry exists.
C10_UniqueDevIno ==
    /\ \A i, j \in 1..Len(searchpaths) :
           (searchpaths[i].dev = searchpaths[j].dev /\ searchpaths[i].ino = searchpaths[j].ino)
               => i = j
    /\ \A i \in 1..Len(searchpaths) : Canonical(searchpaths[i].path) \in DOMAIN fs.meta

---------------------------------------------------------------------------
\* Expansion of the tokens of DT_RPATH and DT_RUNPATH (elf.rs, elf/platform.rs).

\* str::replace: every match of the pattern, leftmost first, without overlap.
RECURSIVE replace(_, _, _)
replace(s, from, to) ==
    IF from = <<>> \/ Len(s) < Len(from) THEN s
    ELSE IF starts_with(s, from)
    THEN to \o replace(SubSeq(s, Len(from) + 1, Len(s)), from, to)
    ELSE <<Head(s)>> \o replace(Tail(s), from, to)

\* str::contains
str_contains(s, pat) ==
    \E i \in 1..(Len(s) + 1) : i + Len(pat) - 1 <= Len(s) /\ SubSeq(s, i, i + Len(pat) - 1) = pat

\* format!("${}", token) and format!("${{{}}}", token)
replace_dyn_str(dynstr, token, value) ==
    replace(replace(dynstr, <<"$">> \o token, value), <<"$", "{">> \o token \o <<"}">>, value)

\* platform::get
platform_get(e_machine, ei_endian) ==
    IF e_machine = "EM_ALPHA" THEN <<"e","v","6","7">>
    ELSE IF e_machine = "EM_ARM"
    THEN (IF ei_endian = "ELFDATA2LSB" THEN <<"v","7","l">>
          ELSE IF ei_endian = "ELFDATA2MSB" THEN <<"v","7","b">> ELSE <<>>)
    ELSE IF e_machine = "EM_AARCH64"
    THEN (IF ei_endian = "ELFDATA2LSB" THEN <<"a","a","r","c","h","6","4">>
          ELSE IF ei_endian = "ELFDATA2MSB" THEN <<"a","a","r","c","h","6","4","_","b","e">> ELSE <<>>)
    ELSE IF e_machine = "EM_LOONGARCH" THEN <<"l","o","o","n","g","a","r","c","h">>
    ELSE IF e_machine = "EM_MIPS" THEN <<"m","i","p","s">>
    ELSE IF e_machine = "EM_PARISC" THEN <<"P","A","R","I","S","C">>
    ELSE IF e_machine = "EM_PPC64" THEN <<"p","o","w","e","r","8">>
    ELSE IF e_machine = "EM_S390" THEN <<"z","1","0">>
    ELSE IF e_machine = "EM_SH" THEN <<"s","h">>
    ELSE IF e_machine = "EM_386" THEN <<"i","6","8","6">>
    ELSE IF e_machine = "EM_X86_64" THEN <<"x","8","6","_","6","4">>
    ELSE <<>>

\* parse_elf_dyn_searchpath_lib, with the library directory of the object.
parse_elf_dyn_searchpath_lib(dynstr, libdir) == replace_dyn_str(dynstr, <<"L","I","B">>, libdir)

platform_of(platform, e_machine, ei_data) ==
    IF platform.some THEN platform.v ELSE platform_get(e_machine, ei_data)

\* The string parse_elf_dyn_searchpath hands to from_string.
expand_dyn_str(dynstr, origin, libdir, platform) ==
    replace_dyn_str(parse_elf_dyn_searchpath_lib(replace_dyn_str(dynstr, <<"O","R","I","G","I","N">>, origin),
                                                 libdir),
                    <<"$","P","L","A","T","F","O","R","M">>, platform)

\* The pieces the DT_RPATH strings of the model are made of, and how many at most.
Pieces ==
    { <<"$","O","R","I","G","I","N">>, <<"$","{","O","R","I","G","I","N","}">>, <<"$","L","I","B">>, <<"$","{","L","I","B","}">>, <<"$","P","L","A","T","F","O","R","M">>, <<"$","{","P","L","A","T","F","O","R","M","}">>,
      <<"/","o","p","t">>, <<":">>, <<"$">> }

MaxPieces == 2

RECURSIVE Strings(_)
Strings(n) ==
    IF n = 0 THEN {<<>>}
    ELSE Strings(n - 1) \cup {s \o p : s \in Strings(n - 1), p \in Pieces}

Machines ==
    { <<"EM_X86_64", "ELFCLASS64", "ELFDATA2LSB">>, <<"EM_ARM", "ELFCLASS32", "ELFDATA2MSB">>,
      <<"EM_NONE", "ELFCLASS64", "ELFDATA2LSB">> }

Platforms == { None, Some(<<"h","a","s","w","e","l","l">>) }

InitExpand ==
    /\ fs = [meta |-> AllMeta]
    /\ \E dynstr \in Strings(MaxPieces), m \in Machines, platform \in Platforms :
          args = [dynstr |-> dynstr, origin |-> <<"/","o","p","t">>, platform |-> platform,
                  e_machine |-> m[1], ei_class |-> m[2], ei_data |-> m[3]]
    /\ ld_cache = None
    /\ config = NoConfig
    /\ deptree = <<>>
    /\ stack = <<>>
    /\ pc = "start"
    /\ newdynstr = <<>>
    /\ searchpaths = <<>>
    /\ output = <<>>
    /\ cfg_lines = <<>>
    /\ properties = <<>>

parse_elf_dyn_searchpath(libdir) ==
    IF ~libdir.some
    THEN /\ pc' = "panic"
         /\ UNCHANGED <<newdynstr, searchpaths>>
    ELSE /\ newdynstr' = expand_dyn_str(args.dynstr, args.origin, libdir.v,
                                        platform_of(args.platform, args.e_machine,
                                                    args.ei_data))
         /\ searchpaths' = from_string(newdynstr')
         /\ pc' = "done"

\* parse_elf_dyn_searchpath of one DT_RPATH or DT_RUNPATH string; get_slibdir's
\* unwrap panics for a machine without a library directory.
ParseElfDynSearchpath ==
    /\ pc = "start"
    /\ parse_elf_dyn_searchpath(get_slibdir(args.e_machine, args.ei_class))
    /\ UNCHANGED <<fs, args, ld_cache, config, deptree, stack, output, cfg_lines, properties>>

NextExpand == ParseElfDynSearchpath

SpecExpand == InitExpand /\ [][NextExpand]_vars

Tokens == { <<"$","O","R","I","G","I","N">>, <<"$","{","O","R","I","G","I","N","}">>, <<"$","L","I","B">>, <<"$","{","L","I","B","}">>, <<"$","P","L","A","T","F","O","R","M">>, <<"$","{","P","L","A","T","F","O","R","M","}">> }

\* C9: the expansion of an rpath or runpath string leaves none of the tokens
\* $ORIGIN, ${ORIGIN}, $LIB, ${LIB}, $PLATFORM, ${PLATFORM} in the string.
C9_TokenClosure ==
    pc = "done" => \A t \in Tokens : ~str_contains(newdynstr, t)

\* C28: reading an ELF object never aborts the process: also for an rpath on a
\* machine and class without a known system library directory the reader
\* returns, with the search paths of the string or with an error value.
C28_ReaderReturns == pc # "panic"

---------------------------------------------------------------------------
\* The Mach-O resolver (macho.rs).

MachOInfo(rpath, deps) == [rpath |-> rpath, deps |-> deps]

\* The load commands the object crate reads as LoadCommandVariant::Dylib.
DylibCommands ==
    {"LC_LOAD_DYLIB", "LC_LOAD_WEAK_DYLIB", "LC_REEXPORT_DYLIB", "LC_LAZY_LOAD_DYLIB",
     "LC_LOAD_UPWARD_DYLIB"}

parse_load_command(command) ==
    IF command.cmd \in DylibCommands \/ command.cmd = "LC_ID_DYLIB"
    THEN Some([kind |-> "Dylib", str |-> command.str])
    ELSE IF command.cmd = "LC_RPATH" THEN Some([kind |-> "Rpath", str |-> command.str])
    ELSE None

parse_macho_command(lc, executable_path, info) ==
    IF ~lc.some THEN info
    ELSE IF lc.v.kind = "Dylib" THEN [info EXCEPT !.deps = Append(@, lc.v.str)]
    ELSE [info EXCEPT !.rpath = add_path(@, replace(lc.v.str, <<"@","e","x","e","c","u","t","a","b","l","e","_","p","a","t","h">>,
                                                    executable_path))]

RECURSIVE parse_macho(_, _, _)
parse_macho(commands, executable_path, info) ==
    IF commands = <<>> THEN info
    ELSE parse_macho(Tail(commands), executable_path,
                     parse_macho_command(parse_load_command(Head(commands)),
                                         executable_path, info))

open_macho_file_at(path, executable_path) ==
    IF path \in DOMAIN fs.files /\ fs.files[path].kind = "macho"
    THEN Some(parse_macho(fs.files[path].cmds, executable_path, MachOInfo(<<>>, <<>>)))
    ELSE None

open_macho_file(filename, executable_path) ==
    open_macho_file_at(Canonical(filename), executable_path)

\* create_context: the dyld shared cache of the machine, if it has one.
create_context ==
    IF fs.dyld_cache.some THEN [mmap |-> TRUE, images |-> fs.dyld_cache.v]
    ELSE [mmap |-> FALSE, images |-> <<>>]

\* DyldCache::get
dyld_cache_get(cache, name, executable_path) ==
    IF cache.mmap /\ name \in DOMAIN cache.images
    THEN (IF cache.images[name].some
          THEN Some(parse_macho(cache.images[name].v, executable_path, MachOInfo(<<>>, <<>>)))
          ELSE Some(MachOInfo(<<>>, <<>>)))
    ELSE None

MachoFrame(loader_path, rpaths, depp, items) ==
    [loader_path |-> loader_path, rpaths |-> rpaths, depp |-> depp, items |-> items]

\* What resolve_dependency_2 leaves: the tree, its result, the dependency string.
Resolved2(tree, ret, dependency) == [tree |-> tree, ret |-> ret, dependency |-> dependency]

Loaded(elc, depd) == [elc |-> elc, depd |-> depd]

RECURSIVE resolve_overrides(_, _, _, _, _)
resolve_overrides_at(library_path, executable_path, filename, tree, depp, elc) ==
    IF elc.some
    THEN Some([tree |-> addnode(tree,
                                DepNode(get_path(join(Head(library_path), filename)),
                                        filename, "LdLibraryPath", FALSE),
                                depp, Ghost("resolved", filename, None, FALSE, None)),
               ret |-> Loaded(elc.v, Len(tree))])
    ELSE resolve_overrides(Tail(library_path), executable_path, filename, tree, depp)

resolve_overrides(library_path, executable_path, filename, tree, depp) ==
    IF library_path = <<>> THEN None
    ELSE resolve_overrides_at(library_path, executable_path, filename, tree, depp,
                              open_macho_file(join(Head(library_path), filename),
                                              executable_path))

check_found(entry, tree, depp, all) ==
    IF ~entry.some THEN [found |-> FALSE, tree |-> tree]
    ELSE [found |-> TRUE,
          tree |-> IF all
                   THEN addnode(tree, DepNode(entry.v.path, entry.v.name, entry.v.mode, TRUE),
                                depp, Ghost("backref", entry.v.name, None, FALSE, None))
                   ELSE tree]

resolve_dependency_check_found(dependency, tree, depp, all) ==
    check_found(get(tree, dependency), tree, depp, all)

\* resolve_dependency_2 from the file system lookup on.
resolve_dependency_2_file(dependency, rpath, tree, depp, preload, elc) ==
    IF ~elc.some
    THEN Resolved2(IF rpath THEN tree
                   ELSE addnode(tree,
                                DepNode(get_path(dependency), get_name(dependency),
                                        "NotFound", FALSE),
                                depp, Ghost("notfound", dependency, None, preload, None)),
                   None, dependency)
    ELSE Resolved2(addnode(tree,
                           DepNode(get_path(Canonical(dependency)),
                                   get_name(Canonical(dependency)),
                                   IF preload THEN "Preload" ELSE "Direct", FALSE),
                           depp, Ghost("resolved", dependency, None, preload, None)),
                   Some(Loaded(elc.v, Len(tree))), Canonical(dependency))

resolve_dependency_2_cached(dependency, tree, depp, preload, elc, checked) ==
    IF checked.found THEN Resolved2(checked.tree, None, dependency)
    ELSE Resolved2(addnode(tree,
                           DepNode(get_path(dependency), get_name(dependency),
                                   "LdCache", FALSE),
                           depp, Ghost("resolved", dependency, None, preload, None)),
                   Some(Loaded(elc.v, Len(tree))), dependency)

\* resolve_dependency_2 from the dyld cache lookup on.
resolve_dependency_2_cache(cfg, dependency, rpath, tree, depp, preload, elc) ==
    IF elc.some
    THEN resolve_dependency_2_cached(dependency, tree, depp, preload, elc,
                                     resolve_dependency_check_found(dependency, tree, depp,
                                                                    cfg.all))
    ELSE resolve_dependency_2_file(dependency, rpath, tree, depp, preload,
                                   IF is_absolute(dependency)
                                   THEN open_macho_file(dependency, cfg.executable_path)
                                   ELSE None)

\* resolve_dependency_2 from the DYLD_LIBRARY_PATH overrides on.
resolve_dependency_2_overrides(cfg, dependency, rpath, tree, depp, preload, over) ==
    IF over.some THEN Resolved2(over.v.tree, Some(over.v.ret), dependency)
    ELSE resolve_dependency_2_cache(cfg, dependency, rpath, tree, depp, preload,
                                    dyld_cache_get(cfg.cache, dependency,
                                                   cfg.executable_path))

resolve_dependency_2(cfg, dependency, rpath, tree, depp, preload) ==
    IF contains(tree, dependency) THEN Resolved2(tree, None, dependency)
    ELSE resolve_dependency_2_overrides(cfg, dependency, rpath, tree, depp, preload,
                                        resolve_overrides(cfg.library_path,
                                                          cfg.executable_path,
                                                          get_name(dependency), tree,
                                                          depp))

\* What one call of the Mach-O resolve_dependency_1 leaves: the tree, whether it
\* loaded an object, and the activation that resolves the object's own list.
Resolved1(r, preload) ==
    IF r.ret.some
    THEN [tree |-> r.tree, ok |-> TRUE,
          push |-> Some(MachoFrame(unwrap_or(get_path(r.dependency), <<>>),
                                   r.ret.v.elc.rpath, r.ret.v.depd,
                                   Items(r.ret.v.elc.deps, preload)))]
    ELSE [tree |-> r.tree, ok |-> FALSE, push |-> None]

macho_resolve_dependency_1(cfg, dependency, rpath, tree, depp, preload) ==
    Resolved1(resolve_dependency_2(cfg, dependency, rpath, tree, depp, preload), preload)

\* The loop of resolve_dependency over the rpaths of the loading object.
RECURSIVE resolve_rpath(_, _, _, _, _, _)
resolve_rpath_next(cfg, rpaths, dependency, depp, preload, r) ==
    IF r.ok THEN r ELSE resolve_rpath(cfg, Tail(rpaths), dependency, r.tree, depp, preload)

resolve_rpath(cfg, rpaths, dependency, tree, depp, preload) ==
    IF rpaths = <<>> THEN [tree |-> tree, ok |-> FALSE, push |-> None]
    ELSE resolve_rpath_next(cfg, rpaths, dependency, depp, preload,
                            macho_resolve_dependency_1(cfg,
                                                       replace(dependency, <<"@","r","p","a","t","h">>,
                                                               Head(rpaths).path),
                                                       TRUE, tree, depp, preload))

\* The dependency string with @executable_path and @loader_path substituted.
substituted(cfg, loader_path, dependency) ==
    replace(replace(dependency, <<"@","e","x","e","c","u","t","a","b","l","e","_","p","a","t","h">>, cfg.executable_path),
            <<"@","l","o","a","d","e","r","_","p","a","t","h">>, loader_path)

resolve_substituted(cfg, rpaths, dependency, tree, depp, preload) ==
    IF str_contains(dependency, <<"@","r","p","a","t","h">>)
    THEN resolve_rpath(cfg, rpaths, dependency, tree, depp, preload)
    ELSE macho_resolve_dependency_1(cfg, dependency, FALSE, tree, depp, preload)

macho_resolve_dependency(cfg, loader_path, rpaths, dependency, tree, depp, preload) ==
    resolve_substituted(cfg, rpaths, substituted(cfg, loader_path, dependency), tree, depp,
                        preload)

\* The Mach-O resolve_binary from the opened object on.
macho_resolve_binary_open(filename, executable_path, omf) ==
    IF ~omf.some
    THEN /\ pc' = "done"
         /\ UNCHANGED <<config, deptree, stack>>
    ELSE /\ config' = [cache |-> create_context, library_path |-> args.ld_library_path,
                       executable_path |-> executable_path, all |-> args.all]
         /\ deptree' = addroot(<<>>,
                               DepNode(Some(executable_path), get_name(filename),
                                       "Executable", FALSE),
                               Ghost("root", filename, None, FALSE, None))
         /\ stack' = <<MachoFrame(executable_path, omf.v.rpath, 0,
                                  Items(args.ld_preload, TRUE) \o Items(omf.v.deps, FALSE))>>
         /\ pc' = "resolve"

macho_resolve_binary(filename, executable_path) ==
    IF filename \notin DOMAIN fs.files \/ ~executable_path.some
    THEN /\ pc' = "done"
         /\ UNCHANGED <<config, deptree, stack>>
    ELSE macho_resolve_binary_open(filename, executable_path.v,
                                   open_macho_file(filename, executable_path.v))

\* create_context and resolve_binary up to its two loops, which the activation it
\* leaves on the stack runs.
MachoResolveBinary ==
    /\ pc = "start"
    /\ ld_cache' = create_context
    /\ macho_resolve_binary(Canonical(args.file), get_path(Canonical(args.file)))
    /\ UNCHANGED <<fs, args, newdynstr, searchpaths, output, cfg_lines, properties>>

macho_resolved(rest, r) ==
    /\ deptree' = r.tree
    /\ stack' = IF r.push.some THEN <<r.push.v>> \o rest ELSE rest

\* One call of the Mach-O resolve_dependency, up to the loop over the loaded
\* object's own list, which the new activation on the stack runs.
MachoResolveDependency ==
    /\ pc = "resolve"
    /\ stack # <<>>
    /\ Head(stack).items # <<>>
    /\ Len(stack) < MaxDepth
    /\ macho_resolved(<<[Head(stack) EXCEPT !.items = Tail(@)]>> \o Tail(stack),
                      macho_resolve_dependency(config, Head(stack).loader_path,
                                               Head(stack).rpaths,
                                               Head(Head(stack).items).dep, deptree,
                                               Head(stack).depp,
                                               Head(Head(stack).items).preload))
    /\ UNCHANGED <<fs, args, ld_cache, config, pc, newdynstr, searchpaths, output, cfg_lines, properties>>

\* The Mach-O inputs of the model.
M_app == <<"/","x","/","a","p","p">>
M_A == <<"/","u","/","A">>
M_B == <<"/","u","/","B">>

Dylib(name) == [cmd |-> "LC_LOAD_DYLIB", str |-> name]
IdDylib(name) == [cmd |-> "LC_ID_DYLIB", str |-> name]
Rpath(path) == [cmd |-> "LC_RPATH", str |-> path]
Segment == [cmd |-> "LC_SEGMENT_64", str |-> <<>>]

MachO(cmds) == [kind |-> "macho", cmds |-> cmds]

MachoMeta ==
    FnOf({ <<<<"/","u">>, [dev |-> 1, ino |-> 30]>>, <<<<"/","v">>, [dev |-> 1, ino |-> 40]>>,
           <<<<"/","x">>, [dev |-> 1, ino |-> 50]>> })

MachoWorlds ==
    { [files |-> FnOf({ <<M_app, MachO(<<Segment>> \o rp \o rd)>>,
                        <<M_A, MachO(aid \o arp \o ad)>>,
                        <<M_B, MachO(bd)>>,
                        <<<<"/","x","/","C">>, MachO(<<>>)>>,
                        <<<<"/","u","/","T">>, [kind |-> "other"]>> }
                      \cup vb),
       dyld_cache |-> dc, ld_library_path |-> llp, ld_preload |-> pre, all |-> all] :
        rp \in { <<>>, <<Rpath(<<"/","u">>)>>, <<Rpath(<<"/","v">>), Rpath(<<"@","e","x","e","c","u","t","a","b","l","e","_","p","a","t","h","/",".",".","/","u">>)>> },
        rd \in { <<Dylib(M_A)>>, <<Dylib(M_A), Dylib(M_A)>>, <<Dylib(M_A), Dylib(M_B)>>,
                 <<Dylib(<<"@","r","p","a","t","h","/","B">>), Dylib(M_A)>>,
                 <<Dylib(<<"@","e","x","e","c","u","t","a","b","l","e","_","p","a","t","h","/","C">>), Dylib(<<"B">>), Dylib(<<"/","u","/","T">>)>>,
                 <<Dylib(<<"/","u","/","N">>)>> },
        aid \in { <<>>, <<IdDylib(M_A)>> },
        arp \in { <<>>, <<Rpath(<<"/","u">>)>> },
        ad \in { <<>>, <<Dylib(M_B)>>, <<Dylib(<<"@","l","o","a","d","e","r","_","p","a","t","h","/","B">>)>>, <<Dylib(<<"@","r","p","a","t","h","/","B">>)>> },
        bd \in { <<>>, <<Dylib(M_A)>> },
        vb \in { {}, {<<<<"/","v","/","B">>, MachO(<<>>)>>} },
        dc \in { None, Some(FnOf({<<<<"/","u","/","N">>, None>>})),
                 Some(FnOf({<<M_B, Some(<<Dylib(M_A)>>)>>})) },
        llp \in { <<>>, <<<<"/","v">>>> },
        pre \in { <<>>, <<M_B>> },
        all \in BOOLEAN }

InitMacho ==
    /\ \E w \in MachoWorlds :
          /\ fs = [files |-> w.files, meta |-> MachoMeta, dyld_cache |-> w.dyld_cache]
          /\ args = [file |-> M_app, ld_library_path |-> w.ld_library_path,
                     ld_preload |-> w.ld_preload, all |-> w.all]
    /\ ld_cache = None
    /\ config = NoConfig
    /\ deptree = <<>>
    /\ stack = <<>>
    /\ pc = "start"
    /\ newdynstr = <<>>
    /\ searchpaths = <<>>
    /\ output = <<>>
    /\ cfg_lines = <<>>
    /\ properties = <<>>

NextMacho == MachoResolveBinary \/ MachoResolveDependency \/ Return

SpecMacho == InitMacho /\ [][NextMacho]_vars

\* The dependency the next call of the Mach-O resolve_dependency looks up.
NextDependency ==
    substituted(config, Head(stack).loader_path, Head(Head(stack).items).dep)

\* C6: a call of resolve_dependency for a dependency the tree already holds loads
\* nothing and leaves no new found = FALSE node: with the "report all" option it
\* appends exactly one found = TRUE leaf under the current parent, without it
\* nothing.  (Holding is what the resolver's own lookup of the tree says.)
C6_BackReference ==
    [][(/\ pc = "resolve"
        /\ stack # <<>>
        /\ Head(stack).items # <<>>
        /\ contains(deptree, NextDependency)
        /\ deptree' # deptree \/ stack' # stack)
       => /\ Len(stack') <= Len(stack)
          /\ IF config.all
             THEN /\ Len(deptree') = Len(deptree) + 1
                  /\ deptree'[Len(deptree')].val.found
                  /\ deptree'[Len(deptree')].parent = Some(Head(stack).depp)
             ELSE deptree' = deptree]_vars

\* The load commands of the object a node of the tree was added for: those of the
\* image of the dyld cache for a node of mode LdCache, else those of the file.
CommandsOf(n) ==
    IF n.val.mode = "LdCache" THEN fs.dyld_cache.v[join(n.val.path.v, n.val.name)].v
    ELSE fs.files[join(n.val.path.v, n.val.name)].cmds

\* The strings of the LC_LOAD_DYLIB commands, in the order of the commands.
RECURSIVE LoadDylibs(_)
LoadDylibs(cmds) ==
    IF cmds = <<>> THEN <<>>
    ELSE (IF Head(cmds).cmd = "LC_LOAD_DYLIB" THEN <<Head(cmds).str>> ELSE <<>>)
         \o LoadDylibs(Tail(cmds))

\* The needed list an activation runs: its items, after the preloads for the binary.
NeededOf(frame) ==
    [i \in 1..(Len(frame.items) - (IF frame.depp = 0 THEN Len(args.ld_preload) ELSE 0)) |->
        frame.items[i + (IF frame.depp = 0 THEN Len(args.ld_preload) ELSE 0)].dep]

\* C26: the needed list of a Mach-O object, which the activation started for it
\* resolves, is the strings of its LC_LOAD_DYLIB commands in the order of the load
\* commands; its LC_ID_DYLIB string is not among them.
C26_NeededLoadDylib ==
    [][Len(stack') > Len(stack)
       => NeededOf(Head(stack')) = LoadDylibs(CommandsOf(deptree'[Head(stack').depp + 1]))]_vars

\* The strings the rpath loop tries for the next dependency, in order.
RpathCandidates ==
    [i \in DOMAIN Head(stack).rpaths |->
        replace(NextDependency, <<"@","r","p","a","t","h">>, Head(stack).rpaths[i].path)]

\* C12: a call of resolve_dependency for a dependency with @rpath in which no
\* substitution of the parent's rpath entries loads an object (the parent's list
\* may be empty) adds one node of mode NotFound for it under the current parent.
C12_RpathNotFound ==
    [][(/\ pc = "resolve"
        /\ stack # <<>>
        /\ Head(stack).items # <<>>
        /\ str_contains(NextDependency, <<"@","r","p","a","t","h">>)
        /\ \A i \in DOMAIN RpathCandidates : ~contains(deptree, RpathCandidates[i])
        /\ stack' # stack
        /\ Len(stack') <= Len(stack))
       => /\ Len(deptree') = Len(deptree) + 1
          /\ deptree'[Len(deptree')].val.mode = "NotFound"
          /\ ~deptree'[Len(deptree')].val.found
          /\ deptree'[Len(deptree')].parent = Some(Head(stack).depp)]_vars


---------------------------------------------------------------------------
\* Reading /etc/ld.so.cache for one binary on one CPU.

\* cpuid::supported on x86: the glibc-hwcaps directories of a CPU of the given
\* x86-64 micro-architecture level, best first.
hwcap_supported(level) ==
    (IF level >= 4 THEN <<<<"x","8","6","-","6","4","-","v","4">>>> ELSE <<>>)
    \o (IF level >= 3 THEN <<<<"x","8","6","-","6","4","-","v","3">>>> ELSE <<>>)
    \o (IF level >= 2 THEN <<<<"x","8","6","-","6","4","-","v","2">>>> ELSE <<>>)

\* The names of the cache's glibc-hwcaps extension section.
HwcapNames == <<<<"x","8","6","-","6","4","-","v","2">>, <<"x","8","6","-","6","4","-","v","3">>, <<"x","8","6","-","6","4","-","v","4">>>>

Plain == [high |-> 0, low |-> 0]

\* The hwcap field that points at name i of the extension section (0-based); the
\* ISA level bits below the extension bit do not matter.
Hwcap(i) == [high |-> DL_CACHE_HWCAP_EXTENSION + 3, low |-> i]

CacheEntry(flags, key, dir, hwcap) ==
    [flags |-> flags, key |-> key, value |-> join(dir, key), hwcap |-> hwcap]

\* The entries a cache file of the model is made of.
EntryPool ==
    { CacheEntry(FLAG_ELF_LIBC6 + FLAG_X8664_LIB64, N_a, D_lib64, Plain),
      CacheEntry(FLAG_ELF_LIBC6 + FLAG_X8664_LIB64, N_a, <<"/","l","i","b","6","4","/","g","l","i","b","c","-","h","w","c","a","p","s","/","x","8","6","-","6","4","-","v","2">>, Hwcap(0)),
      CacheEntry(FLAG_ELF_LIBC6 + FLAG_X8664_LIB64, N_a, <<"/","l","i","b","6","4","/","g","l","i","b","c","-","h","w","c","a","p","s","/","x","8","6","-","6","4","-","v","3">>, Hwcap(1)),
      CacheEntry(FLAG_ELF_LIBC6 + FLAG_X8664_LIB64, N_a, <<"/","l","i","b","6","4","/","g","l","i","b","c","-","h","w","c","a","p","s","/","x","8","6","-","6","4","-","v","4">>, Hwcap(2)),
      CacheEntry(FLAG_ELF_LIBC6 + FLAG_X8664_LIB64, N_b, D_lib64, Plain),
      CacheEntry(FLAG_ELF_LIBC6, N_a, <<"/","l","i","b">>, Plain) }

\* The most entries a cache file of the model has.
MaxEntries == 3

\* The sequences of at most n different entries.
RECURSIVE EntryLists(_)
EntryLists(n) ==
    IF n = 0 THEN {<<>>}
    ELSE EntryLists(n - 1)
         \cup {Append(l, e) : l \in EntryLists(n - 1),
                              e \in EntryPool} 

CacheFiles ==
    { [entries |-> l, hwcap_idxs |-> HwcapNames] :
        l \in {x \in EntryLists(MaxEntries) : \A i, j \in DOMAIN x : i # j => x[i] # x[j]} }

CacheBinaries ==
    { [ei_class |-> "ELFCLASS64", e_machine |-> "EM_X86_64", e_flags |-> 0],
      [ei_class |-> "ELFCLASS32", e_machine |-> "EM_386", e_flags |-> 0] }

InitCache ==
    /\ \E file \in CacheFiles, level \in 1..4 :
          fs = [etc_ld_so_cache |-> Some(file), hwcap_supported |-> hwcap_supported(level)]
    /\ args \in CacheBinaries
    /\ ld_cache = None
    /\ config = NoConfig
    /\ deptree = <<>>
    /\ stack = <<>>
    /\ pc = "start"
    /\ newdynstr = <<>>
    /\ searchpaths = <<>>
    /\ output = <<>>
    /\ cfg_lines = <<>>
    /\ properties = <<>>

\* The cache is parsed for the binary of the command line.
ParseLdSoCache ==
    /\ pc = "start"
    /\ ld_cache' = parse_ld_so_cache(args.ei_class, args.e_machine, args.e_flags)
    /\ pc' = "done"
    /\ UNCHANGED <<fs, args, config, deptree, stack, newdynstr, searchpaths, output, cfg_lines, properties>>

NextCache == ParseLdSoCache

SpecCache == InitCache /\ [][NextCache]_vars

\* The entries of the file for library `key` that the binary's architecture accepts.
EntriesOf(key) ==
    { i \in DOMAIN fs.etc_ld_so_cache.v.entries :
        /\ fs.etc_ld_so_cache.v.entries[i].key = key
        /\ check_file_entry_flags(fs.etc_ld_so_cache.v.entries[i].flags,
                                  args.ei_class, args.e_machine, args.e_flags) }

\* The position of entry i's glibc-hwcaps directory among the supported ones.
HwcapPosition(i) ==
    check_hwcap_index(check_cache_hwcap_extension(fs.etc_ld_so_cache.v.entries[i].hwcap),
                      fs.etc_ld_so_cache.v.hwcap_idxs, fs.hwcap_supported)

Eligible(key) == { i \in EntriesOf(key) : HwcapPosition(i).some }

PlainEntries(key) ==
    { i \in EntriesOf(key) :
        ~check_cache_hwcap_extension(fs.etc_ld_so_cache.v.entries[i].hwcap).some }

\* The entries whose path the map may hold for `key`.
BestFit(key) ==
    IF Eligible(key) # {}
    THEN { i \in Eligible(key) :
             \A j \in Eligible(key) : HwcapPosition(i).v <= HwcapPosition(j).v }
    ELSE IF PlainEntries(key) # {} THEN PlainEntries(key)
    ELSE EntriesOf(key)

\* C11: whatever the order of the entries in the cache file, the path the map keeps
\* for a library is that of the eligible glibc-hwcaps entry whose directory comes
\* first in hwcap_supported; a plain entry's path is kept only when the library has
\* no eligible entry, and an entry of an unsupported directory is never kept in
\* preference to a plain or an eligible one.
C11_HwcapBestFit ==
    pc = "done" =>
        \A key \in {N_a, N_b} :
            EntriesOf(key) # {} =>
                /\ key \in DOMAIN ld_cache.v
                /\ \E i \in BestFit(key) :
                       ld_cache.v[key] = fs.etc_ld_so_cache.v.entries[i].value


---------------------------------------------------------------------------
\* A run over several input files: one context, one tree printed for each input.

\* The driver's loop: the tree of the input just resolved is printed (an empty tree
\* stands for the error message of an input that could not be resolved) and the
\* next input, if any, is taken up with the context the run has so far.
PrintDeps ==
    /\ pc = "done"
    /\ "rest" \in DOMAIN args
    /\ output' = Append(output, [file |-> args.file, tree |-> deptree])
    /\ deptree' = <<>>
    /\ IF args.rest = <<>>
       THEN /\ pc' = "exit"
            /\ UNCHANGED args
       ELSE /\ pc' = "start"
            /\ args' = [args EXCEPT !.file = Head(args.rest), !.rest = Tail(args.rest)]
    /\ UNCHANGED <<fs, ld_cache, config, stack, newdynstr, searchpaths, cfg_lines, properties>>

P_app32 == <<"/","x","/","a","p","p","3","2">>
P_musl == <<"/","x","/","m","u","s","l">>
P_static == <<"/","x","/","s","t","a","t","i","c">>
D_c32 == <<"/","c","3","2">>
D_lib == <<"/","l","i","b">>
I_glibc32 == <<"/","l","i","b","/","l","d","-","l","i","n","u","x",".","s","o",".","2">>

\* The 32-bit x86 object with the fields of the given one.
Elf32(elc) == [elc EXCEPT !.ei_class = "ELFCLASS32", !.e_machine = "EM_386"]

\* A cache file with a 64-bit and a 32-bit entry for library a.
MultilibCache ==
    Some([entries |-> <<CacheEntry(FLAG_ELF_LIBC6 + FLAG_X8664_LIB64, N_a, D_c, Plain),
                        CacheEntry(FLAG_ELF_LIBC6, N_a, D_c32, Plain)>>,
          hwcap_idxs |-> <<>>])

\* The most input files of a run.
MaxInputs == 3

RECURSIVE InputLists(_)
InputLists(n) ==
    IF n = 0 THEN {<<>>}
    ELSE InputLists(n - 1)
         \cup {Append(l, f) : l \in InputLists(n - 1),
                              f \in {P_app, P_app32, P_musl, P_static, <<"/","x","/","n","o","n","e">>}}

RunWorlds ==
    { [files |-> FnOf({ <<P_app, Variant("ok", N_a, ElfObj(Some(I_glibc), None, <<>>, <<>>, FALSE, <<N_a>>))>>,
                        <<P_app32, Variant("ok", N_a, Elf32(ElfObj(Some(I_glibc32), None, <<>>, <<>>, FALSE, <<N_a>>)))>>,
                        <<P_musl, Variant("ok", N_a, ElfObj(Some(I_musl), None, <<>>, <<>>, FALSE, <<N_a>>))>>,
                        <<P_static, Variant("ok", N_a, ElfObj(None, None, <<>>, <<>>, FALSE, <<N_a>>))>> }
                      \cup Place(D_c, N_a, "ok", Leaf)
                      \cup Place(D_c32, N_a, "ok", Elf32(Leaf))
                      \cup Place(D_lib64, N_a, k64, Leaf)
                      \cup Place(D_lib, N_a, k32, Elf32(Leaf))),
       etc_ld_so_cache |-> cache, inputs |-> inputs] :
        k64 \in {"none", "ok"}, k32 \in {"none", "ok"}, cache \in {None, MultilibCache},
        inputs \in InputLists(MaxInputs) \ {<<>>} }

InitRun ==
    /\ \E w \in RunWorlds :
          /\ fs = [files |-> w.files, etc_ld_so_cache |-> w.etc_ld_so_cache,
                   hwcap_supported |-> <<>>, etc_ld_so_preload |-> <<>>]
          /\ args = [file |-> Head(w.inputs), rest |-> Tail(w.inputs),
                     ld_library_path |-> <<>>, ld_preload |-> <<>>, all |-> FALSE]
    /\ ld_cache = None
    /\ config = NoConfig
    /\ deptree = <<>>
    /\ stack = <<>>
    /\ pc = "start"
    /\ newdynstr = <<>>
    /\ searchpaths = <<>>
    /\ output = <<>>
    /\ cfg_lines = <<>>
    /\ properties = <<>>

NextRun == ResolveBinary \/ ResolveDependency \/ Return \/ PrintDeps

SpecRun == InitRun /\ [][NextRun]_vars

\* What a printed tree shows: the nodes, their parents and their children.
Printed(tree) ==
    [i \in DOMAIN tree |->
        [val |-> tree[i].val, parent |-> tree[i].parent, children |-> tree[i].children]]

\* C13: the tree printed for an input file is the one printed for it as the first
\* input of a run, whatever inputs the run has processed before it.
C13_InputIndependence ==
    \A i \in DOMAIN output :
        output[i].file = output[1].file =>
            Printed(output[i].tree) = Printed(output[1].tree)

\* C14: once the context holds a loader cache, no step of the run reloads or
\* modifies it, however many inputs follow.
C14_CacheLoadedOnce ==
    [][ld_cache.some => ld_cache' = ld_cache]_vars

\* A later input of another architecture is being resolved with the cache that
\* was loaded for an earlier one.
C14_Witness ==
    /\ pc = "resolve"
    /\ output # <<>>
    /\ ld_cache.some
    /\ is_glibc(stack[Len(stack)].elc.interp)
    /\ ld_cache # parse_ld_so_cache(stack[Len(stack)].elc.ei_class,
                                     stack[Len(stack)].elc.e_machine,
                                     stack[Len(stack)].elc.e_flags)


---------------------------------------------------------------------------
\* ld.so.conf files (ld_conf.rs).  fs.conf holds the lines of every configuration
\* file, under its absolute path or its path from the working directory.

WhiteSpace == {" ", "\t"}

RECURSIVE trim_start(_)
trim_start(s) ==
    IF s # <<>> /\ Head(s) \in WhiteSpace THEN trim_start(Tail(s)) ELSE s

RECURSIVE trim_end(_)
trim_end(s) ==
    IF s # <<>> /\ s[Len(s)] \in WhiteSpace THEN trim_end(SubSeq(s, 1, Len(s) - 1)) ELSE s

\* str::find: what precedes the first c, all of s when it has none.
RECURSIVE before(_, _)
before(s, c) ==
    IF s = <<>> \/ Head(s) = c THEN <<>> ELSE <<Head(s)>> \o before(Tail(s), c)

parse_line_nonempty(line) == IF line = <<>> THEN None ELSE Some(line)

parse_line(line) == parse_line_nonempty(trim_end(before(trim_start(line), "#")))

\* str::split_whitespace: word is the field being read.
RECURSIVE split_whitespace(_, _)
split_whitespace(s, word) ==
    IF s = <<>> THEN (IF word = <<>> THEN <<>> ELSE <<word>>)
    ELSE IF Head(s) \in WhiteSpace
    THEN (IF word = <<>> THEN <<>> ELSE <<word>>) \o split_whitespace(Tail(s), <<>>)
    ELSE split_whitespace(Tail(s), Append(word, Head(s)))

\* The files of the directories that File::open fails for (a file without read
\* permission, a symbolic link to no file).
Unopenable == IF "unopenable" \in DOMAIN fs THEN fs.unopenable ELSE {}

\* io::Lines of a file: a directory opens and yields no line; None for no such file
\* and for one that does not open.
read_lines(filename) ==
    IF filename \in Unopenable THEN None
    ELSE IF filename \in DOMAIN fs.conf THEN Some(fs.conf[filename])
    ELSE IF filename \in DOMAIN fs.meta THEN Some(<<>>)
    ELSE None

\* glob::Pattern: * matches any characters but the separator.
RECURSIVE glob_matches(_, _)
glob_matches(pattern, path) ==
    IF pattern = <<>> THEN path = <<>>
    ELSE IF Head(pattern) = "*"
    THEN \/ glob_matches(Tail(pattern), path)
         \/ path # <<>> /\ Head(path) # SEP /\ glob_matches(pattern, Tail(path))
    ELSE path # <<>> /\ Head(path) = Head(pattern) /\ glob_matches(Tail(pattern), Tail(path))

\* The characters of the model's paths in their byte order.
ByteOrder == <<"*","-",".","/","0","1","2","3","4","5","6","7","8","9","_","a","b","c","d","e","f","g","h","i","j","k","l","m","n","o","p","q","r","s","t","u","v","w","x","y","z">>

byte(c) == CHOOSE i \in DOMAIN ByteOrder : ByteOrder[i] = c

RECURSIVE path_less(_, _)
path_less(a, b) ==
    IF b = <<>> THEN FALSE
    ELSE IF a = <<>> THEN TRUE
    ELSE IF Head(a) = Head(b) THEN path_less(Tail(a), Tail(b))
    ELSE byte(Head(a)) < byte(Head(b))

\* The paths of a set in alphabetical order.
RECURSIVE sorted(_)
sorted(paths) ==
    IF paths = {} THEN <<>>
    ELSE <<CHOOSE p \in paths : \A q \in paths \ {p} : path_less(p, q)>>
         \o sorted(paths \ {CHOOSE p \in paths : \A q \in paths \ {p} : path_less(p, q)})

\* glob: the existing paths the pattern matches, in alphabetical order.
glob(pattern) ==
    sorted({p \in DOMAIN fs.conf \cup DOMAIN fs.meta \cup Unopenable : glob_matches(pattern, p)})

Ok(v) == [ok |-> TRUE, v |-> v]
Err(e) == [ok |-> FALSE, v |-> e]

RECURSIVE merge_retain(_, _)
merge_retain(v, n) ==
    IF n = <<>> THEN <<>>
    ELSE (IF vec_contains(v, Head(n)) THEN <<>> ELSE <<Head(n)>>) \o merge_retain(v, Tail(n))

merge_searchpaths(v, n) == v \o merge_retain(v, n)

\* An include pattern taken as it is written, from the working directory.
glob_filename_unanchored(root, pattern) == pattern

\* The pattern an include directive globs: a relative one is joined to root.
glob_filename(root, pattern) ==
    IF ~is_absolute(pattern) /\ root.some THEN join(root.v, pattern) ELSE pattern

RECURSIVE parse_ld_so_conf(_)
RECURSIVE parse_ld_so_conf_lines(_, _, _)
RECURSIVE parse_ld_so_conf_line(_, _, _, _)
RECURSIVE parse_ld_so_conf_include(_, _, _, _)
RECURSIVE parse_ld_so_conf_glob(_, _)
RECURSIVE parse_ld_so_conf_entries(_, _)
RECURSIVE parse_ld_so_conf_entry(_, _, _)

parse_ld_so_conf(filename) ==
    IF ~read_lines(filename).some THEN Err("Could not open the filename")
    ELSE parse_ld_so_conf_lines(filename, read_lines(filename).v, <<>>)

\* The loop over the lines of the file, r the set so far.
parse_ld_so_conf_lines(filename, lines, r) ==
    IF lines = <<>> THEN Ok(r)
    ELSE parse_ld_so_conf_line(filename, parse_line(Head(lines)), Tail(lines), r)

parse_ld_so_conf_line(filename, line, rest, r) ==
    IF ~line.some THEN parse_ld_so_conf_lines(filename, rest, r)
    ELSE IF starts_with(line.v, <<"i","n","c","l","u","d","e">>)
    THEN (IF Len(split_whitespace(line.v, <<>>)) < 2 THEN Err("Invalid ld.so.conf")
          ELSE parse_ld_so_conf_include(filename, rest, r,
                   parse_ld_so_conf_glob(parent(filename),
                                         split_whitespace(line.v, <<>>)[2])))
    ELSE IF ~starts_with(line.v, <<"h","w","c","a","p">>)
    THEN parse_ld_so_conf_lines(filename, rest, add_path(r, line.v))
    ELSE parse_ld_so_conf_lines(filename, rest, r)

parse_ld_so_conf_include(filename, rest, r, v) ==
    IF v.ok THEN parse_ld_so_conf_lines(filename, rest, merge_searchpaths(r, v.v))
    ELSE v

parse_ld_so_conf_glob(root, pattern) ==
    parse_ld_so_conf_entries(glob(glob_filename(root, pattern)), <<>>)

\* The loop over the paths the pattern matches.
parse_ld_so_conf_entries(entries, r) ==
    IF entries = <<>> THEN Ok(r)
    ELSE parse_ld_so_conf_entry(Tail(entries), r, parse_ld_so_conf(Head(entries)))

parse_ld_so_conf_entry(rest, r, v) ==
    IF v.ok THEN parse_ld_so_conf_entries(rest, merge_searchpaths(r, v.v))
    ELSE Err("Invalid path in ld.so.conf include file")


\* The directories of the machine with the configuration files: /usr/lib is a
\* symbolic link to /lib.
ConfMeta ==
    FnOf({ <<<<"/","l","i","b">>, [dev |-> 1, ino |-> 10]>>, <<<<"/","u","s","r","/","l","i","b">>, [dev |-> 1, ino |-> 10]>>,
           <<<<"/","o","p","t">>, [dev |-> 1, ino |-> 20]>>, <<<<"/","s","r","v">>, [dev |-> 1, ino |-> 30]>>,
           <<<<"/","m","n","t">>, [dev |-> 1, ino |-> 40]>>, <<<<"/","v","a","r">>, [dev |-> 1, ino |-> 50]>>,
           <<<<"/","e","t","c">>, [dev |-> 1, ino |-> 60]>>, <<<<"/","e","t","c","/","s","u","b">>, [dev |-> 1, ino |-> 61]>>,
           <<<<"/","e","t","c","/","s","u","b","/","i","n","n","e","r">>, [dev |-> 1, ino |-> 62]>>,
           <<<<"/","e","t","c","/","i","n","n","e","r">>, [dev |-> 1, ino |-> 63]>>, <<<<"i","n","n","e","r">>, [dev |-> 1, ino |-> 64]>> })

\* The lines the top-level file of the model is made of.
ConfLines ==
    { <<"/","l","i","b">>, <<"/","u","s","r","/","l","i","b">>, <<"/","o","p","t">>, <<" ", "\t">> \o <<"/","s","r","v"," "," ","#"," ","l","o","c","a","l">>, <<"i","n","c","l","u","d","e"," ","s","u","b","/","*">>,
      <<"i","n","c","l","u","d","e"," ","/","e","t","c","/","s","u","b","/","*",".","c","o","n","f">>, <<"h","w","c","a","p"," ","1"," ","n","o","s","e","g","n","e","g">>, <<"/","n","o","n","e">>, <<"#"," ","c","o","m","m","e","n","t">>, <<"i","n","c","l","u","d","e">> }

\* The most lines of the top-level file.
MaxLines == 3

RECURSIVE LineLists(_)
LineLists(n) ==
    IF n = 0 THEN {<<>>}
    ELSE LineLists(n - 1) \cup {Append(l, x) : l \in LineLists(n - 1), x \in ConfLines}

\* The configuration files: the top-level one, two files of /etc/sub, of which one
\* may include the files of its own inner directory, and files in directories named
\* inner beside the top-level file and in the working directory.
ConfFiles ==
    { FnOf({ <<<<"/","e","t","c","/","l","d",".","s","o",".","c","o","n","f">>, top>>, <<<<"/","e","t","c","/","s","u","b","/","a",".","c","o","n","f">>, a>>,
             <<<<"/","e","t","c","/","s","u","b","/","i","n","n","e","r","/","c",".","c","o","n","f">>, <<<<"/","m","n","t">>>>>>,
             <<<<"/","e","t","c","/","i","n","n","e","r","/","d",".","c","o","n","f">>, <<<<"/","v","a","r">>>>>>,
             <<<<"i","n","n","e","r","/","e",".","c","o","n","f">>, <<<<"/","v","a","r">>>>>> } \cup b) :
        top \in LineLists(MaxLines),
        a \in { <<<<"/","o","p","t">>>>, <<<<"i","n","c","l","u","d","e"," ","i","n","n","e","r","/","*">>, <<"/","l","i","b">>>>, <<<<"/","u","s","r","/","l","i","b">>, <<"/","s","r","v">>>> },
        b \in { {}, {<<<<"/","e","t","c","/","s","u","b","/","b",".","c","o","n","f">>, <<<<"/","s","r","v">>, <<"/","l","i","b">>>>>>} } }

\* The files of /etc/sub that do not open: none, or u.conf beside a lone a.conf
\* under a top-level file of two lines at most.
UnopenableFiles(conf) ==
    IF /\ conf[<<"/","e","t","c","/","s","u","b","/","a",".","c","o","n","f">>] = <<<<"/","o","p","t">>>>
       /\ <<"/","e","t","c","/","s","u","b","/","b",".","c","o","n","f">> \notin DOMAIN conf
       /\ Len(conf[<<"/","e","t","c","/","l","d",".","s","o",".","c","o","n","f">>]) <= 2
    THEN {{}, {<<"/","e","t","c","/","s","u","b","/","u",".","c","o","n","f">>}}
    ELSE {{}}

InitConf ==
    /\ \E conf \in ConfFiles :
          \E u \in UnopenableFiles(conf) :
             fs = [conf |-> conf, meta |-> ConfMeta, unopenable |-> u]
    /\ args = [file |-> <<"/","e","t","c","/","l","d",".","s","o",".","c","o","n","f">>]
    /\ ld_cache = None
    /\ config = NoConfig
    /\ deptree = <<>>
    /\ stack = <<>>
    /\ pc = "start"
    /\ newdynstr = <<>>
    /\ searchpaths = <<>>
    /\ output = <<>>
    /\ cfg_lines = <<>>
    /\ properties = <<>>

parsed(r) ==
    IF r.ok THEN searchpaths' = r.v /\ pc' = "done"
    ELSE pc' = "error" /\ UNCHANGED searchpaths

\* parse_ld_so_conf of the file of the command line.
ParseLdSoConf ==
    /\ pc = "start"
    /\ parsed(parse_ld_so_conf(args.file))
    /\ UNCHANGED <<fs, args, ld_cache, config, deptree, stack, newdynstr, output, cfg_lines, properties>>

NextConf == ParseLdSoConf

SpecConf == InitConf /\ [][NextConf]_vars

\* The directives of a file: its lines without comments, blanks and empty lines.
RECURSIVE Directives(_)
Directives(lines) ==
    IF lines = <<>> THEN <<>>
    ELSE (IF parse_line(Head(lines)).some THEN <<parse_line(Head(lines)).v>> ELSE <<>>)
         \o Directives(Tail(lines))

IsInclude(d) == starts_with(d, <<"i","n","c","l","u","d","e">>)

IsDirectory(d) == ~IsInclude(d) /\ ~starts_with(d, <<"h","w","c","a","p">>)

\* The files an include directive of file f stands for: those its pattern matches,
\* a relative pattern being taken from the directory of f.
Included(f, d) ==
    glob(IF is_absolute(split_whitespace(d, <<>>)[2]) THEN split_whitespace(d, <<>>)[2]
         ELSE parent(f).v \o <<SEP>> \o split_whitespace(d, <<>>)[2])

\* The directory lines of file f with every include directive replaced, where it
\* stands, by the lines of the files it stands for.
RECURSIVE Flat(_)
RECURSIVE FlatDirectives(_, _)
RECURSIVE FlatFiles(_)
Flat(f) == IF f \in DOMAIN fs.conf THEN FlatDirectives(f, Directives(fs.conf[f])) ELSE <<>>

FlatDirectives(f, ds) ==
    IF ds = <<>> THEN <<>>
    ELSE (IF IsInclude(Head(ds)) THEN FlatFiles(Included(f, Head(ds)))
          ELSE IF IsDirectory(Head(ds)) THEN <<Head(ds)>>
          ELSE <<>>)
         \o FlatDirectives(f, Tail(ds))

FlatFiles(files) ==
    IF files = <<>> THEN <<>> ELSE Flat(Head(files)) \o FlatFiles(Tail(files))

\* The existing directories of a list, each at its first occurrence.
RECURSIVE FirstOccurrences(_, _)
FirstOccurrences(dirs, seen) ==
    IF dirs = <<>> THEN <<>>
    ELSE IF ~metadata(Head(dirs)).some \/ metadata(Head(dirs)).v \in seen
    THEN FirstOccurrences(Tail(dirs), seen)
    ELSE <<Head(dirs)>> \o FirstOccurrences(Tail(dirs), seen \cup {metadata(Head(dirs)).v})

\* C16: the result of parsing an ld.so.conf file is the list of the existing
\* directories of the file in file order, the directories of an include directive
\* standing where the directive is, and every directory is in the list once, where
\* it occurs first.
C16_IncludeOrder ==
    pc = "done" =>
        [i \in DOMAIN searchpaths |-> searchpaths[i].path]
            = FirstOccurrences(Flat(args.file), {})

\* The files the parse of f reads: f and the files its include directives stand
\* for, each relative pattern taken from the directory of the file that holds it.
RECURSIVE ReadFrom(_)
ReadFrom(f) ==
    {f} \cup UNION { ReadFrom(g) :
                       g \in UNION { {Included(f, d)[k] : k \in DOMAIN Included(f, d)} :
                                       d \in { Directives(fs.conf[f])[i] :
                                                 i \in { j \in DOMAIN Directives(fs.conf[f]) :
                                                           IsInclude(Directives(fs.conf[f])[j]) } } }
                                \cap DOMAIN fs.conf }

\* C17: a relative include pattern is anchored at the directory of the file that
\* holds the directive, at every depth: the directories of the result are the
\* existing ones named in the files reached that way, and in no other file.
C17_RelativeInclude ==
    pc = "done" =>
        { searchpaths[i].path : i \in DOMAIN searchpaths }
            = { d \in UNION { { Directives(fs.conf[f])[i] : i \in DOMAIN Directives(fs.conf[f]) } :
                                f \in ReadFrom(args.file) } :
                  IsDirectory(d) /\ metadata(d).some }

\* The parse went through a relative include of a file that another file
\* included from another directory.
C17_Witness ==
    /\ pc = "done"
    /\ <<"/","e","t","c","/","s","u","b","/","i","n","n","e","r","/","c",".","c","o","n","f">> \in ReadFrom(args.file)
    /\ \E i \in DOMAIN searchpaths : searchpaths[i].path = <<"/","m","n","t">>
    /\ \A i \in DOMAIN searchpaths : searchpaths[i].path # <<"/","v","a","r">>

\* The include directives of the files all have a pattern.
PatternsGiven(files) ==
    \A f \in files : \A i \in DOMAIN Directives(fs.conf[f]) :
        IsInclude(Directives(fs.conf[f])[i])
           => Len(split_whitespace(Directives(fs.conf[f])[i], <<>>)) >= 2

\* C27: a file that an include pattern matches and that cannot be opened is left
\* out: the parse of files whose include directives all have a pattern gives Ok,
\* with the existing directories of the lines of the files that can be read.
C27_IncludeFailure ==
    (pc \in {"done", "error"} /\ "conf" \in DOMAIN fs /\ PatternsGiven(DOMAIN fs.conf))
    => /\ pc = "done"
       /\ { searchpaths[i].path : i \in DOMAIN searchpaths }
             = { d \in UNION { { Directives(fs.conf[f])[i] : i \in DOMAIN Directives(fs.conf[f]) } :
                                 f \in ReadFrom(args.file) } :
                   IsDirectory(d) /\ metadata(d).some }

---------------------------------------------------------------------------
\* Android's ld.config.txt (elf/ld_config_txt.rs, elf/android.rs).  fs.ld_config_txt
\* holds the lines of the file, None when it cannot be opened.

\* str::trim
trim(s) == trim_end(trim_start(s))

\* str::ends_with
ends_with(s, p) == Len(s) >= Len(p) /\ SubSeq(s, Len(s) - Len(p) + 1, Len(s)) = p

\* str::find with a string pattern: where the first match starts, 0 when there is none.
str_find(s, pat) ==
    IF str_contains(s, pat)
    THEN CHOOSE i \in 1..(Len(s) + 1) :
            /\ SubSeq(s, i, i + Len(pat) - 1) = pat
            /\ \A j \in 1..(i - 1) : SubSeq(s, j, j + Len(pat) - 1) # pat
    ELSE 0

\* str::split with a string pattern.
RECURSIVE split_at(_, _, _)
split_at(s, pat, k) ==
    IF k = 0 THEN <<s>>
    ELSE <<SubSeq(s, 1, k - 1)>> \o
         split_at(SubSeq(s, k + Len(pat), Len(s)), pat,
                  str_find(SubSeq(s, k + Len(pat), Len(s)), pat))

split_str(s, pat) == split_at(s, pat, str_find(s, pat))

Token(token, line) == Some([token |-> token, line |-> line])

token_of(line) ==
    IF line = <<>> THEN None
    ELSE IF Head(line) = "[" /\ line[Len(line)] = "]"
    THEN Token("Section", SubSeq(line, 2, Len(line) - 1))
    ELSE IF str_contains(line, <<"+","=">>) THEN Token("PropertyAppend", line)
    ELSE IF str_contains(line, <<"=">>) THEN Token("PropertyAssign", line)
    ELSE Token("Error", line)

next_token(line) == token_of(trim_end(before(trim_start(line), "#")))

name_value(vec, error) ==
    IF Len(vec) # 2 THEN Err(error)
    ELSE Ok([name |-> trim(vec[1]), value |-> trim(vec[2])])

parse_assignment(line) == name_value(split_str(line, <<"=">>), "invalid assigment line")

parse_append(line) == name_value(split_str(line, <<"+","=">>), "invalid append line")

\* The spec's reading of pathutils::file_is_under_dir: the path of the file begins
\* with the directory.
file_is_under_dir(file, dir) == starts_with(file, dir)

\* std::fs::canonicalize: the path when it leads somewhere.
canonicalize(path) ==
    IF path # <<>> /\ Canonical(path) \in DOMAIN fs.meta THEN Ok(Canonical(path))
    ELSE Err("No such file or directory")

Found(section, rest) == Ok([section |-> section, rest |-> rest])

RECURSIVE find_initial_section(_, _)
initial_section_dir(binary, rest, nv) ==
    IF ~nv.ok THEN Err(nv.v)
    ELSE IF ~starts_with(nv.v.name, <<"d","i","r",".">>) THEN find_initial_section(binary, rest)
    ELSE IF canonicalize(nv.v.value).ok /\ file_is_under_dir(binary, canonicalize(nv.v.value).v)
    THEN Found(SubSeq(nv.v.name, 5, Len(nv.v.name)), rest)
    ELSE find_initial_section(binary, rest)

initial_section_token(binary, rest, t) ==
    IF ~t.some THEN find_initial_section(binary, rest)
    ELSE IF t.v.token = "PropertyAssign"
    THEN initial_section_dir(binary, rest, parse_assignment(t.v.line))
    ELSE IF t.v.token = "Section" THEN Err("initial section for binary not found")
    ELSE find_initial_section(binary, rest)

find_initial_section(binary, rest) ==
    IF rest = <<>> THEN Err("initial section for binary not found")
    ELSE initial_section_token(binary, Tail(rest), next_token(Head(rest)))

RECURSIVE find_section(_, _)
section_token(section, rest, t) ==
    IF ~t.some THEN find_section(section, rest)
    ELSE IF t.v.token \in {"PropertyAssign", "PropertyAppend"} THEN find_section(section, rest)
    ELSE IF t.v.token = "Section"
    THEN (IF section = t.v.line THEN Ok(rest) ELSE find_section(section, rest))
    ELSE Err("section for binary not found")

find_section(section, rest) ==
    IF rest = <<>> THEN Err("section for binary not found")
    ELSE section_token(section, Tail(rest), next_token(Head(rest)))

\* The Token::PropertyAppend arm of parse_ld_config_txt with every suffix joined.
property_append_any(props, name, value) ==
    IF name \in DOMAIN props
    THEN IF ends_with(name, <<".","l","i","n","k","s">>) \/ ends_with(name, <<".","n","a","m","e","s","p","a","c","e","s">>)
         THEN insert(props, name, props[name] \o <<",">> \o value)
         ELSE insert(props, name, props[name] \o <<":">> \o value)
    ELSE insert(props, name, value)

\* The Token::PropertyAppend arm of parse_ld_config_txt.
property_append(props, name, value) ==
    IF name \in DOMAIN props
    THEN IF ends_with(name, <<".","l","i","n","k","s">>) \/ ends_with(name, <<".","n","a","m","e","s","p","a","c","e","s">>)
         THEN insert(props, name, props[name] \o <<",">> \o value)
         ELSE IF \/ ends_with(name, <<".","p","a","t","h","s">>)
                 \/ ends_with(name, <<".","s","h","a","r","e","d","_","l","i","b","s">>)
                 \/ ends_with(name, <<".","w","h","i","t","e","l","i","s","t","e","d">>)
                 \/ ends_with(name, <<".","a","l","l","o","w","e","d","_","l","i","b","s">>)
         THEN insert(props, name, props[name] \o <<":">> \o value)
         ELSE props
    ELSE insert(props, name, value)

Continue(props) == [ctl |-> "continue", props |-> props]

property_assigned(props, nv) ==
    IF ~nv.ok THEN [ctl |-> "error", props |-> props]
    ELSE Continue(insert(props, nv.v.name, nv.v.value))

property_appended(props, nv) ==
    IF ~nv.ok THEN [ctl |-> "error", props |-> props]
    ELSE Continue(property_append(props, nv.v.name, nv.v.value))

\* One turn of the loop of parse_ld_config_txt over the lines of the section.
property_token(props, t) ==
    IF ~t.some THEN Continue(props)
    ELSE IF t.v.token = "PropertyAssign" THEN property_assigned(props, parse_assignment(t.v.line))
    ELSE IF t.v.token = "PropertyAppend" THEN property_appended(props, parse_append(t.v.line))
    ELSE [ctl |-> "break", props |-> props]

read_property(props, line) == property_token(props, next_token(line))

\* Properties::get_bool, get_string and get_paths of the property map.
get_bool(props, name) == IF name \in DOMAIN props THEN props[name] = <<"t","r","u","e">> ELSE FALSE

get_string(props, name) == IF name \in DOMAIN props THEN props[name] ELSE <<>>

libpath(e_machine, ei_class) ==
    IF e_machine \in {"EM_AARCH64", "EM_X86_64"} THEN Some(<<"l","i","b","6","4">>)
    ELSE IF e_machine \in {"EM_ARM", "EM_386"} THEN Some(<<"l","i","b">>)
    ELSE IF e_machine = "EM_MIPS"
    THEN (IF ei_class = "ELFCLASS64" THEN Some(<<"l","i","b","6","4">>)
          ELSE IF ei_class = "ELFCLASS32" THEN Some(<<"l","i","b">>)
          ELSE None)
    ELSE None

get_paths(props, name, e_machine, ei_class) ==
    from_string(replace(get_string(props, name), <<"$","{","L","I","B","}">>, libpath(e_machine, ei_class).v))

is_asan(interp) == get_name(interp) \in {<<"l","i","n","k","e","r","_","a","s","a","n">>, <<"l","i","n","k","e","r","_","a","s","a","n","6","4">>}

DEFAULT_NAME_CONFIG == <<"d","e","f","a","u","l","t">>

\* The keys of ns_configs: default and the names of additional.namespaces.
namespace_names(props) ==
    {DEFAULT_NAME_CONFIG} \cup
    (IF <<"a","d","d","i","t","i","o","n","a","l",".","n","a","m","e","s","p","a","c","e","s">> \in DOMAIN props
     THEN {split(props[<<"a","d","d","i","t","i","o","n","a","l",".","n","a","m","e","s","p","a","c","e","s">>], ",")[i] :
              i \in 1..Len(split(props[<<"a","d","d","i","t","i","o","n","a","l",".","n","a","m","e","s","p","a","c","e","s">>], ","))}
     ELSE {})

NamespaceLinkingConfig(name, shared_libs, allow_all) ==
    [name |-> name, shared_libs |-> shared_libs, allow_all |-> allow_all]

\* A check that lets a link have both allow_all_shared_libs and shared_libs.
linked_namespace_both(ns_linked, allow_all, shared_libs, ns_configs_set) ==
    IF ns_linked \notin ns_configs_set THEN Err("undefined namespace")
    ELSE IF ~allow_all /\ shared_libs = <<>>
    THEN Err("list of shared_libs is not specified or is empty.")
    ELSE Ok(NamespaceLinkingConfig(ns_linked, shared_libs, allow_all))

linked_namespace(ns_linked, allow_all, shared_libs, ns_configs_set) ==
    IF ns_linked \notin ns_configs_set THEN Err("undefined namespace")
    ELSE IF ~allow_all /\ shared_libs = <<>>
    THEN Err("list of shared_libs is not specified or is empty.")
    ELSE IF allow_all /\ shared_libs # <<>>
    THEN Err("both shared_libs and allow_all_shared_libs are set.")
    ELSE Ok(NamespaceLinkingConfig(ns_linked, shared_libs, allow_all))

RECURSIVE linked_namespaces(_, _, _, _, _)
linked_namespaces_push(props, prefix, names, ns_configs_set, namespaces, linked) ==
    IF ~linked.ok THEN linked
    ELSE linked_namespaces(props, prefix, names, ns_configs_set, Append(namespaces, linked.v))

\* The loop over the names of namespace.<ns>.links.
linked_namespaces(props, prefix, names, ns_configs_set, namespaces) ==
    IF names = <<>> THEN Ok(namespaces)
    ELSE linked_namespaces_push(props, prefix, Tail(names), ns_configs_set, namespaces,
             linked_namespace(Head(names),
                 get_bool(props, prefix \o <<".","l","i","n","k",".">> \o Head(names) \o <<".","a","l","l","o","w","_","a","l","l","_","s","h","a","r","e","d","_","l","i","b","s">>),
                 get_string(props, prefix \o <<".","l","i","n","k",".">> \o Head(names) \o <<".","s","h","a","r","e","d","_","l","i","b","s">>),
                 ns_configs_set))

namespace_links(props, prefix, ns_configs_set) ==
    IF (prefix \o <<".","l","i","n","k","s">>) \in DOMAIN props
    THEN linked_namespaces(props, prefix, split(props[prefix \o <<".","l","i","n","k","s">>], ","),
                           ns_configs_set, <<>>)
    ELSE Ok(<<>>)

NonEmpty(x) == x # <<>>

allowed_libs_of(props, prefix) ==
    SelectSeq(split(get_string(props, prefix \o <<".","w","h","i","t","e","l","i","s","t","e","d">>), ":"), NonEmpty) \o
    SelectSeq(split(get_string(props, prefix \o <<".","a","l","l","o","w","e","d","_","l","i","b","s">>), ":"), NonEmpty)

\* A namespace with a fallback to the plain properties when the asan ones are not set.
namespace_config_fallback(props, name, prefix, paths_prefix, namespaces, e_machine, ei_class) ==
    [name |-> name,
     isolated |-> get_bool(props, prefix \o <<".","i","s","o","l","a","t","e","d">>),
     visible |-> get_bool(props, prefix \o <<".","v","i","s","i","b","l","e">>),
     search_paths |->
        IF (paths_prefix \o <<".","s","e","a","r","c","h",".","p","a","t","h","s">>) \in DOMAIN props
        THEN get_paths(props, paths_prefix \o <<".","s","e","a","r","c","h",".","p","a","t","h","s">>, e_machine, ei_class)
        ELSE get_paths(props, prefix \o <<".","s","e","a","r","c","h",".","p","a","t","h","s">>, e_machine, ei_class),
     permitted |->
        IF (paths_prefix \o <<".","p","e","r","m","i","t","t","e","d",".","p","a","t","h","s">>) \in DOMAIN props
        THEN get_paths(props, paths_prefix \o <<".","p","e","r","m","i","t","t","e","d",".","p","a","t","h","s">>, e_machine, ei_class)
        ELSE get_paths(props, prefix \o <<".","p","e","r","m","i","t","t","e","d",".","p","a","t","h","s">>, e_machine, ei_class),
     allowed_libs |-> allowed_libs_of(props, prefix),
     namespaces |-> namespaces]

\* The fields parse_ld_config_txt gives a namespace: prefix is namespace.<ns>, and
\* paths_prefix the same or namespace.<ns>.asan.
namespace_config(props, name, prefix, paths_prefix, namespaces, e_machine, ei_class) ==
    [name |-> name,
     isolated |-> get_bool(props, prefix \o <<".","i","s","o","l","a","t","e","d">>),
     visible |-> get_bool(props, prefix \o <<".","v","i","s","i","b","l","e">>),
     search_paths |-> get_paths(props, paths_prefix \o <<".","s","e","a","r","c","h",".","p","a","t","h","s">>, e_machine, ei_class),
     permitted |-> get_paths(props, paths_prefix \o <<".","p","e","r","m","i","t","t","e","d",".","p","a","t","h","s">>, e_machine, ei_class),
     allowed_libs |-> allowed_libs_of(props, prefix),
     namespaces |-> namespaces]

property_name_prefix(name, asan) ==
    IF asan THEN <<"n","a","m","e","s","p","a","c","e",".">> \o name \o <<".","a","s","a","n">> ELSE <<"n","a","m","e","s","p","a","c","e",".">> \o name

namespace_of(props, name, asan, ns_configs_set, e_machine, ei_class) ==
    namespace_config(props, name, property_name_prefix(name, FALSE),
                     property_name_prefix(name, asan),
                     namespace_links(props, property_name_prefix(name, FALSE), ns_configs_set).v,
                     e_machine, ei_class)

\* The results the loop over the namespaces may give: the namespaces of the
\* property map or, when the links of some of them are not well formed, the error
\* of the one of these that the iteration of the HashMap comes to first.
ns_configs_of(props, asan, ns_configs_set, e_machine, ei_class) ==
    IF \E name \in ns_configs_set :
          ~namespace_links(props, property_name_prefix(name, FALSE), ns_configs_set).ok
    THEN { namespace_links(props, property_name_prefix(name, FALSE), ns_configs_set) :
             name \in { n \in ns_configs_set :
                          ~namespace_links(props, property_name_prefix(n, FALSE),
                                           ns_configs_set).ok } }
    ELSE { Ok([name \in ns_configs_set |->
                  namespace_of(props, name, asan, ns_configs_set, e_machine, ei_class)]) }

read_namespaces(props, interp, e_machine, ei_class) ==
    ns_configs_of(props, is_asan(interp), namespace_names(props), e_machine, ei_class)

\* The directories of the device.
AndroidMeta ==
    FnOf({ <<<<"/","t">>, [dev |-> 1, ino |-> 5]>>, <<<<"/","l","i","b">>, [dev |-> 1, ino |-> 10]>>,
           <<<<"/","o","p","t">>, [dev |-> 1, ino |-> 20]>>, <<<<"/","s","r","v">>, [dev |-> 1, ino |-> 30]>> })

\* The lines every ld.config.txt of the model starts with: the section of the binary
\* and a default namespace linked to the namespace s.
BaseLines ==
    << <<"#"," ","c","o","m","m","e","n","t"," ">>, <<"d","i","r",".","t"," ","="," ","/","t">>, <<>>, <<"[","t","]">>,
       <<"a","d","d","i","t","i","o","n","a","l",".","n","a","m","e","s","p","a","c","e","s","=","s">>,
       <<"n","a","m","e","s","p","a","c","e",".","d","e","f","a","u","l","t",".","i","s","o","l","a","t","e","d"," ","="," ","t","r">>,
       <<"n","a","m","e","s","p","a","c","e",".","d","e","f","a","u","l","t",".","s","e","a","r","c","h",".","p","a","t","h","s"," ","="," ","/","$","{","L","I","B","}">>,
       <<"n","a","m","e","s","p","a","c","e",".","d","e","f","a","u","l","t",".","a","s","a","n",".","s","e","a","r","c","h",".","p","a","t","h","s"," ","="," ","/","s","r","v">>,
       <<"n","a","m","e","s","p","a","c","e",".","d","e","f","a","u","l","t",".","l","i","n","k","s"," ","="," ","s">>,
       <<"n","a","m","e","s","p","a","c","e",".","d","e","f","a","u","l","t",".","l","i","n","k",".","s",".","s","h","a","r","e","d","_","l","i","b","s","="," "," ","a",".","s","o">> >>

\* The lines a file may have after them, in this order.
MoreLines ==
    << <<"a","d","d","i","t","i","o","n","a","l",".","n","a","m","e","s","p","a","c","e","s","+","=","v">>,
       <<"n","a","m","e","s","p","a","c","e",".","d","e","f","a","u","l","t",".","l","i","n","k","s"," ","+","="," ","v">>,
       <<"n","a","m","e","s","p","a","c","e",".","d","e","f","a","u","l","t",".","l","i","n","k",".","v",".","a","l","l","o","w","_","a","l","l","_","s","h","a","r","e","d","_","l","i","b","s"," ","="," ","t","r","u","e">>,
       <<"n","a","m","e","s","p","a","c","e",".","d","e","f","a","u","l","t",".","l","i","n","k",".","s",".","a","l","l","o","w","_","a","l","l","_","s","h","a","r","e","d","_","l","i","b","s"," ","="," ","t","r","u","e">>,
       <<"n","a","m","e","s","p","a","c","e",".","d","e","f","a","u","l","t",".","l","i","n","k",".","s",".","s","h","a","r","e","d","_","l","i","b","s"," "," "," ","+","=","b",".","s","o">>,
       <<"n","a","m","e","s","p","a","c","e",".","d","e","f","a","u","l","t",".","s","e","a","r","c","h",".","p","a","t","h","s"," ","+","="," ","/","o","p","t">>,
       <<"n","a","m","e","s","p","a","c","e",".","d","e","f","a","u","l","t",".","p","e","r","m","i","t","t","e","d",".","p","a","t","h","s"," ","+","="," ","/","o","p","t">>,
       <<"n","a","m","e","s","p","a","c","e",".","d","e","f","a","u","l","t",".","a","s","a","n",".","p","e","r","m","i","t","t","e","d",".","p","a","t","h","s"," ","="," ","/","s","r","v",":","/","o","p","t">>,
       <<"n","a","m","e","s","p","a","c","e",".","d","e","f","a","u","l","t",".","i","s","o","l","a","t","e","d"," ","+","="," ","u","e">>,
       <<"n","a","m","e","s","p","a","c","e",".","d","e","f","a","u","l","t",".","v","i","s","i","b","l","e"," ","+","="," ","t","r","u","e">>,
       <<"n","a","m","e","s","p","a","c","e",".","d","e","f","a","u","l","t",".","w","h","i","t","e","l","i","s","t","e","d"," ","="," ","x",".","s","o">>,
       <<"n","a","m","e","s","p","a","c","e",".","d","e","f","a","u","l","t",".","w","h","i","t","e","l","i","s","t","e","d"," ","+","="," ","y",".","s","o">>,
       <<"n","a","m","e","s","p","a","c","e",".","d","e","f","a","u","l","t",".","a","l","l","o","w","e","d","_","l","i","b","s"," ","+","="," ","z",".","s","o">>,
       <<"n","a","m","e","s","p","a","c","e",".","s",".","s","e","a","r","c","h",".","p","a","t","h","s"," ","="," ","/","o","p","t"," "," ","#"," ","s">>,
       <<"[","o","t","h","e","r","]">>,
       <<"a"," ","+","="," ","b"," ","+","="," ","c">> >>

\* The most lines a file has after the base lines.
MaxProperties == 3

RECURSIVE Picks(_, _)
Picks(from, n) ==
    IF n = 0 \/ from > Len(MoreLines) THEN {<<>>}
    ELSE Picks(from + 1, n) \cup {<<MoreLines[from]>> \o p : p \in Picks(from + 1, n - 1)}

ConfigFiles == {Some(BaseLines \o p) : p \in Picks(1, MaxProperties)} \cup {None}

AndroidInterps == {<<"/","s","y","s","t","e","m","/","b","i","n","/","l","i","n","k","e","r">>, <<"/","s","y","s","t","e","m","/","b","i","n","/","l","i","n","k","e","r","_","a","s","a","n">>, <<"/","s","y","s","t","e","m","/","b","i","n","/","l","i","n","k","e","r","_","a","s","a","n","6","4">>}

InitLdConfig ==
    /\ \E file \in ConfigFiles : fs = [ld_config_txt |-> file, meta |-> AndroidMeta]
    /\ \E interp \in AndroidInterps :
          args = [file |-> <<"/","t","/","b","i","n","a","r","y">>, interp |-> interp,
                  e_machine |-> "EM_386", ei_class |-> "ELFCLASS32"]
    /\ ld_cache = None
    /\ config = NoConfig
    /\ deptree = <<>>
    /\ stack = <<>>
    /\ pc = "start"
    /\ newdynstr = <<>>
    /\ searchpaths = <<>>
    /\ output = <<>>
    /\ cfg_lines = <<>>
    /\ properties = <<>>

section_found(r) ==
    IF r.ok THEN cfg_lines' = r.v /\ pc' = "properties"
    ELSE pc' = "error" /\ UNCHANGED cfg_lines

initial_section_found(r) ==
    IF r.ok THEN section_found(find_section(r.v.section, r.v.rest))
    ELSE pc' = "error" /\ UNCHANGED cfg_lines

\* parse_ld_config_txt up to the line that opens the section of the binary.
FindSection ==
    /\ pc = "start"
    /\ IF fs.ld_config_txt.some
       THEN initial_section_found(find_initial_section(args.file, fs.ld_config_txt.v))
       ELSE pc' = "error" /\ UNCHANGED cfg_lines
    /\ UNCHANGED <<fs, args, ld_cache, config, deptree, stack, newdynstr, searchpaths, output,
                   properties>>

property_read(r) ==
    /\ properties' = r.props
    /\ pc' = IF r.ctl = "continue" THEN "properties"
             ELSE IF r.ctl = "break" THEN "namespaces" ELSE "error"

\* One line of the section read by the loop of parse_ld_config_txt.
ReadProperty ==
    /\ pc = "properties"
    /\ cfg_lines # <<>>
    /\ property_read(read_property(properties, Head(cfg_lines)))
    /\ cfg_lines' = Tail(cfg_lines)
    /\ UNCHANGED <<fs, args, ld_cache, config, deptree, stack, newdynstr, searchpaths, output>>

namespaces_read(r) ==
    IF r.ok THEN ld_cache' = Some(r.v) /\ pc' = "done" /\ UNCHANGED output
    ELSE pc' = "error" /\ output' = <<r.v>> /\ UNCHANGED ld_cache

\* parse_ld_config_txt after its loop: the namespaces of the properties.
ReadNamespaces ==
    /\ \/ pc = "properties" /\ cfg_lines = <<>>
       \/ pc = "namespaces"
    /\ \E r \in read_namespaces(properties, args.interp, args.e_machine, args.ei_class) :
          namespaces_read(r)
    /\ UNCHANGED <<fs, args, config, deptree, stack, newdynstr, searchpaths,
                   cfg_lines, properties>>

NextLdConfig == FindSection \/ ReadProperty \/ ReadNamespaces

SpecLdConfig == InitLdConfig /\ [][NextLdConfig]_vars

\* The name and the value of the line the loop reads next, when it is an append
\* (a line with += and one name and one value).
NextLine == next_token(Head(cfg_lines))

IsAppend ==
    /\ pc = "properties" /\ cfg_lines # <<>>
    /\ NextLine.some /\ NextLine.v.token = "PropertyAppend"
    /\ parse_append(NextLine.v.line).ok

AppendName == parse_append(NextLine.v.line).v.name

AppendValue == parse_append(NextLine.v.line).v.value

CommaSuffix(name) == ends_with(name, <<".","l","i","n","k","s">>) \/ ends_with(name, <<".","n","a","m","e","s","p","a","c","e","s">>)

ColonSuffix(name) ==
    \/ ends_with(name, <<".","p","a","t","h","s">>) \/ ends_with(name, <<".","s","h","a","r","e","d","_","l","i","b","s">>)
    \/ ends_with(name, <<".","w","h","i","t","e","l","i","s","t","e","d">>) \/ ends_with(name, <<".","a","l","l","o","w","e","d","_","l","i","b","s">>)

\* What an append to a property with a value does to the map.
Joined18 ==
    /\ CommaSuffix(AppendName) =>
          properties' = [properties EXCEPT
                            ![AppendName] = properties[AppendName] \o <<",">> \o AppendValue]
    /\ ~CommaSuffix(AppendName) /\ ColonSuffix(AppendName) =>
          properties' = [properties EXCEPT
                            ![AppendName] = properties[AppendName] \o <<":">> \o AppendValue]

\* C18: an append (+=) joins the value to the existing one with "," for a name that
\* ends in .links or .namespaces and with ":" for one that ends in .paths,
\* .shared_libs, .whitelisted or .allowed_libs; for a name with any other suffix it
\* leaves the property map unchanged, whether or not the property was assigned before.
C18_AppendSemantics ==
    [][IsAppend =>
          /\ AppendName \in DOMAIN properties => Joined18
          /\ ~CommaSuffix(AppendName) /\ ~ColonSuffix(AppendName) => properties' = properties]_vars

\* C18 as amended: the joins as above; an append to a name with any other suffix
\* leaves the map unchanged when the property was assigned before, and an append to a
\* property that has no value yet sets it to the appended value, whatever its suffix.
C18_AppendAmended ==
    [][IsAppend =>
          /\ AppendName \in DOMAIN properties => Joined18
          /\ AppendName \in DOMAIN properties
             /\ ~CommaSuffix(AppendName) /\ ~ColonSuffix(AppendName) => properties' = properties
          /\ AppendName \notin DOMAIN properties =>
                /\ DOMAIN properties' = DOMAIN properties \cup {AppendName}
                /\ properties'[AppendName] = AppendValue
                /\ \A n \in DOMAIN properties : properties'[n] = properties[n]]_vars

\* The lines of the section the loop has read.
LinesRead ==
    SubSeq(fs.ld_config_txt.v, 1, Len(fs.ld_config_txt.v) - Len(cfg_lines))

WasRead(line) == \E i \in 1..Len(LinesRead) : LinesRead[i] = line

\* The loop has read an append joined with ",", one joined with ":" and one to a
\* property with another suffix that had a value.
C18_Witness ==
    /\ pc = "properties"
    /\ WasRead(<<"n","a","m","e","s","p","a","c","e",".","d","e","f","a","u","l","t",".","l","i","n","k","s"," ","+","="," ","v">>)
    /\ properties[<<"n","a","m","e","s","p","a","c","e",".","d","e","f","a","u","l","t",".","l","i","n","k","s">>] = <<"s",",","v">>
    /\ WasRead(<<"n","a","m","e","s","p","a","c","e",".","d","e","f","a","u","l","t",".","l","i","n","k",".","s",".","s","h","a","r","e","d","_","l","i","b","s"," "," "," ","+","=","b",".","s","o">>)
    /\ properties[<<"n","a","m","e","s","p","a","c","e",".","d","e","f","a","u","l","t",".","l","i","n","k",".","s",".","s","h","a","r","e","d","_","l","i","b","s">>] = <<"a",".","s","o",":","b",".","s","o">>
    /\ WasRead(<<"n","a","m","e","s","p","a","c","e",".","d","e","f","a","u","l","t",".","i","s","o","l","a","t","e","d"," ","+","="," ","u","e">>)
    /\ properties[<<"n","a","m","e","s","p","a","c","e",".","d","e","f","a","u","l","t",".","i","s","o","l","a","t","e","d">>] = <<"t","r">>

\* The binary's interpreter is an ASan linker.
AsanLinker == get_name(args.interp) \in {<<"l","i","n","k","e","r","_","a","s","a","n">>, <<"l","i","n","k","e","r","_","a","s","a","n","6","4">>}

PlainName(ns, property) == <<"n","a","m","e","s","p","a","c","e",".">> \o ns \o <<".">> \o property

AsanName(ns, property) == <<"n","a","m","e","s","p","a","c","e",".">> \o ns \o <<".","a","s","a","n",".">> \o property

PathsName(ns, property) == IF AsanLinker THEN AsanName(ns, property) ELSE PlainName(ns, property)

PathsOf(name) == get_paths(properties, name, args.e_machine, args.ei_class)

LinksOf(ns) ==
    IF PlainName(ns, <<"l","i","n","k","s">>) \in DOMAIN properties
    THEN split(properties[PlainName(ns, <<"l","i","n","k","s">>)], ",")
    ELSE <<>>

\* C19: with an ASan linker (linker_asan, linker_asan64) as the interpreter, the
\* search paths and the permitted paths of every namespace are those of its
\* namespace.<ns>.asan. properties and of no other (none when these are not set),
\* while isolated, visible, the links and the allowed libraries are those of the
\* plain names; with any other interpreter the plain properties give the paths too.
C19_AsanPaths ==
    pc = "done" =>
       \A ns \in DOMAIN ld_cache.v :
          /\ ld_cache.v[ns].search_paths = PathsOf(PathsName(ns, <<"s","e","a","r","c","h",".","p","a","t","h","s">>))
          /\ ld_cache.v[ns].permitted = PathsOf(PathsName(ns, <<"p","e","r","m","i","t","t","e","d",".","p","a","t","h","s">>))
          /\ AsanLinker /\ AsanName(ns, <<"s","e","a","r","c","h",".","p","a","t","h","s">>) \notin DOMAIN properties =>
                ld_cache.v[ns].search_paths = <<>>
          /\ AsanLinker /\ AsanName(ns, <<"p","e","r","m","i","t","t","e","d",".","p","a","t","h","s">>) \notin DOMAIN properties =>
                ld_cache.v[ns].permitted = <<>>
          /\ ld_cache.v[ns].isolated = get_bool(properties, PlainName(ns, <<"i","s","o","l","a","t","e","d">>))
          /\ ld_cache.v[ns].visible = get_bool(properties, PlainName(ns, <<"v","i","s","i","b","l","e">>))
          /\ [i \in 1..Len(ld_cache.v[ns].namespaces) |-> ld_cache.v[ns].namespaces[i].name]
                = LinksOf(ns)
          /\ ld_cache.v[ns].allowed_libs = allowed_libs_of(properties, <<"n","a","m","e","s","p","a","c","e",".">> \o ns)

\* Under an ASan linker the file has given the default namespace asan search paths
\* and links, allowed libraries and plain permitted paths, and the namespace s plain
\* search paths only.
C19_Witness ==
    /\ pc = "done"
    /\ AsanLinker
    /\ ld_cache.v[<<"d","e","f","a","u","l","t">>].search_paths # <<>>
    /\ ld_cache.v[<<"d","e","f","a","u","l","t">>].namespaces # <<>>
    /\ ld_cache.v[<<"d","e","f","a","u","l","t">>].allowed_libs # <<>>
    /\ <<"n","a","m","e","s","p","a","c","e",".","d","e","f","a","u","l","t",".","p","e","r","m","i","t","t","e","d",".","p","a","t","h","s">> \in DOMAIN properties
    /\ ld_cache.v[<<"d","e","f","a","u","l","t">>].permitted = <<>>
    /\ <<"n","a","m","e","s","p","a","c","e",".","s",".","s","e","a","r","c","h",".","p","a","t","h","s">> \in DOMAIN properties
    /\ ld_cache.v[<<"s">>].search_paths = <<>>


\* The namespaces the properties declare, and the two properties of the link from
\* namespace ns to the namespace target.
Declared == namespace_names(properties)

AllowAll(ns, target) ==
    get_bool(properties, PlainName(ns, <<"l","i","n","k",".">> \o target \o <<".","a","l","l","o","w","_","a","l","l","_","s","h","a","r","e","d","_","l","i","b","s">>))

SharedLibs(ns, target) ==
    get_string(properties, PlainName(ns, <<"l","i","n","k",".">> \o target \o <<".","s","h","a","r","e","d","_","l","i","b","s">>))

\* The error of a link, if it has one.
LinkError(ns, target) ==
    IF target \notin Declared THEN Some("undefined namespace")
    ELSE IF AllowAll(ns, target) /\ SharedLibs(ns, target) # <<>>
    THEN Some("both shared_libs and allow_all_shared_libs are set.")
    ELSE IF ~AllowAll(ns, target) /\ SharedLibs(ns, target) = <<>>
    THEN Some("list of shared_libs is not specified or is empty.")
    ELSE None

\* The links with an error: the namespace and the position in its links.
BadLinks ==
    UNION { { <<ns, i>> : i \in { j \in 1..Len(LinksOf(ns)) :
                                    LinkError(ns, LinksOf(ns)[j]).some } } :
            ns \in Declared }

\* ReadNamespaces has acted: it gave the namespaces or its error.
NamespacesRead == pc = "done" \/ (pc = "error" /\ output # <<>>)

\* C25: the namespaces are read with an error when a link of a namespace names an
\* undeclared namespace ("undefined namespace"), has allow_all_shared_libs and a
\* shared_libs list, or has neither, the error being that of the first such link of
\* a namespace; otherwise every link is recorded with exactly these two values.
C25_LinkValidation ==
    NamespacesRead =>
       /\ pc = "error" <=> BadLinks # {}
       /\ pc = "error" =>
             \E b \in BadLinks :
                /\ output[1] = LinkError(b[1], LinksOf(b[1])[b[2]]).v
                /\ \A j \in 1..(b[2] - 1) : <<b[1], j>> \notin BadLinks
       /\ pc = "done" =>
             \A ns \in DOMAIN ld_cache.v :
                ld_cache.v[ns].namespaces
                   = [i \in 1..Len(LinksOf(ns)) |->
                         NamespaceLinkingConfig(LinksOf(ns)[i],
                                                SharedLibs(ns, LinksOf(ns)[i]),
                                                AllowAll(ns, LinksOf(ns)[i]))]

\* The default namespace has a link with a shared_libs list and one that allows all.
C25_Witness ==
    /\ pc = "done"
    /\ Len(ld_cache.v[<<"d","e","f","a","u","l","t">>].namespaces) = 2
    /\ ld_cache.v[<<"d","e","f","a","u","l","t">>].namespaces[1].shared_libs # <<>>
    /\ ~ld_cache.v[<<"d","e","f","a","u","l","t">>].namespaces[1].allow_all
    /\ ld_cache.v[<<"d","e","f","a","u","l","t">>].namespaces[2].shared_libs = <<>>
    /\ ld_cache.v[<<"d","e","f","a","u","l","t">>].namespaces[2].allow_all

---------------------------------------------------------------------------
\* The interpreter of an object (elf/interp.rs): handle_loader applied to objects
\* whose PT_INTERP names follow and do not follow the scheme of musl.

\* The architectures of musl's loader names, each with its sub-architectures.
MuslArchs ==
    FnOf({ <<<<"a","r","m">>, {<<"e","b">>, <<"h","f">>, <<"e","b","h","f">>}>>, <<<<"a","a","r","c","h","6","4">>, {<<"_","b","e">>}>>,
           <<<<"m","6","8","k">>, {<<"-","f","p","6","4">>, <<"-","s","f">>}>>, <<<<"m","i","p","s","6","4">>, MUSL_SUBARCH_MIPS>>,
           <<<<"m","i","p","s","n","3","2">>, MUSL_SUBARCH_MIPS>>, <<<<"m","i","p","s">>, MUSL_SUBARCH_MIPS>>,
           <<<<"p","o","w","e","r","p","c","6","4">>, {<<"l","e">>}>>, <<<<"p","o","w","e","r","p","c">>, {<<"s","f">>}>>, <<<<"m","i","c","r","o","b","l","a","z","e">>, {<<"e","l">>}>>,
           <<<<"r","i","s","c","v","6","4">>, {<<"s","f">>, <<"-","s","f","-","s","p">>, <<"-","s","p">>}>>, <<<<"s","h">>, MUSL_SUBARCH_SH>>,
           <<<<"n","t","3","2">>, {}>>, <<<<"n","t","6","4">>, {}>>, <<<<"o","r","1","k">>, {}>>, <<<<"s","3","9","0","x">>, {}>>,
           <<<<"x","8","6","_","6","4">>, {}>>, <<<<"x","3","2">>, {}>>, <<<<"i","3","8","6">>, {}>> })

\* The interpreters of the model: every architecture, and one that musl has not, with
\* every sub-architecture of any of them, in and out of a directory, under the
\* suffix of musl and under others; a loader of glibc; and no interpreter at all.
InterpNames ==
    { dir \o <<"l","d","-","m","u","s","l","-">> \o arch \o sub \o suffix :
        dir \in {<<>>, <<"/","l","i","b","/">>},
        arch \in DOMAIN MuslArchs \cup {<<"s","p","a","r","c">>},
        sub \in UNION {MuslArchs[a] : a \in DOMAIN MuslArchs} \cup {<<>>, <<"z","z">>},
        suffix \in {<<".","s","o",".","1">>, <<".","s","o">>, <<".","s","o",".","1",".","0">>} }

Interps == {Some(n) : n \in InterpNames \cup {<<"/","l","i","b","/","l","d","-","l","i","n","u","x","-","a","a","r","c","h","6","4",".","s","o",".","1">>}} \cup {None}

InitInterp ==
    /\ fs = <<>>
    /\ \E interp \in Interps : args = [elc |-> [interp |-> interp, is_musl |-> FALSE]]
    /\ ld_cache = None
    /\ config = NoConfig
    /\ deptree = <<>>
    /\ stack = <<>>
    /\ pc = "start"
    /\ newdynstr = <<>>
    /\ searchpaths = <<>>
    /\ output = <<>>
    /\ cfg_lines = <<>>
    /\ properties = <<>>

\* handle_loader of the object parsed: config holds the ElfInfo it leaves.
HandleLoader ==
    /\ pc = "start"
    /\ config' = handle_loader(args.elc)
    /\ pc' = "done"
    /\ UNCHANGED <<fs, args, ld_cache, deptree, stack, newdynstr, searchpaths, output,
                   cfg_lines, properties>>

NextInterp == HandleLoader

SpecInterp == InitInterp /\ [][NextInterp]_vars

\* The file name has the form ld-musl-<arch><subarch>.so.1.
MuslName(name) ==
    \E arch \in DOMAIN MuslArchs : \E sub \in MuslArchs[arch] \cup {<<>>} :
        name = <<"l","d","-","m","u","s","l","-">> \o arch \o sub \o <<".","s","o",".","1">>

\* C20: is_musl is true exactly when the file name of the interpreter is
\* ld-musl-<arch><subarch>.so.1 for an architecture of musl (m68k and sh among them)
\* and a sub-architecture that is empty or one of that architecture's; it is false
\* for an object without interpreter and for every other name.
C20_IsMusl ==
    pc = "done" =>
       config.is_musl = (args.elc.interp.some /\ MuslName(get_name(args.elc.interp.v)))

---------------------------------------------------------------------------
\* FreeBSD's ld-elf.so.hints (ld_hints.rs).  fs.hints is the file, None when it cannot
\* be opened: its first bytes, each a number below 256, and the count of the zero
\* bytes that follow them to the end of the file.

ELFHINTS_HDR_LEN == 128

ELFHINTS_MAGIC == 1953392709

ELFHINTS_VERSION == 1

ELFHINTS_MAXFILESIZE == 16 * 1024

\* File::metadata().len()
file_len(file) == Len(file.bytes) + file.pad

\* The byte at an offset of the file.
byte_at(file, off) == IF off < Len(file.bytes) THEN file.bytes[off + 1] ELSE 0

\* Read::read_exact of n bytes at an offset: an error when the file ends before them.
read_exact(file, off, n) ==
    IF n > 0 /\ off + n > file_len(file) THEN Err("failed to fill whole buffer")
    ELSE Ok([i \in 1..n |-> byte_at(file, off + i - 1)])

\* A u32 field of the header as transmute gives it on a little-endian machine.
u32_at(h, off) ==
    h[off + 1] + 256 * h[off + 2] + 65536 * h[off + 3] + 16777216 * h[off + 4]

elfhints_hdr(h) ==
    [magic |-> u32_at(h, 0), version |-> u32_at(h, 4), strtab |-> u32_at(h, 8),
     strsize |-> u32_at(h, 12), dirlist |-> u32_at(h, 16), dirlistlen |-> u32_at(h, 20)]

\* The characters of the bytes a directory list is made of.
chr(b) ==
    IF b = 0 THEN "NUL"
    ELSE IF b \in 45..58 THEN <<"-",".","/","0","1","2","3","4","5","6","7","8","9",":">>[b - 44]
    ELSE IF b \in 97..122 THEN <<"a","b","c","d","e","f","g","h","i","j","k","l","m","n","o","p","q","r","s","t","u","v","w","x","y","z">>[b - 96]
    ELSE "?"

\* str::from_utf8: no byte of the model above 127 starts a character.
from_utf8(bytes) ==
    IF \E i \in DOMAIN bytes : bytes[i] > 127 THEN Err("invalid utf-8")
    ELSE Ok([i \in DOMAIN bytes |-> chr(bytes[i])])

\* str::trim_matches(char::from(0))
RECURSIVE trim_matches_nul(_)
trim_matches_nul(s) ==
    IF s # <<>> /\ Head(s) = "NUL" THEN trim_matches_nul(Tail(s))
    ELSE IF s # <<>> /\ s[Len(s)] = "NUL" THEN trim_matches_nul(SubSeq(s, 1, Len(s) - 1))
    ELSE s

hints_dirlist(dirlist) ==
    IF ~dirlist.ok THEN dirlist
    ELSE IF from_utf8(dirlist.v).ok THEN Ok(from_string(trim_matches_nul(from_utf8(dirlist.v).v)))
    ELSE Err("Invalid directory list in hint file")

hints_header(file, hdr) ==
    IF hdr.magic # ELFHINTS_MAGIC THEN Err("Invalid ELFHINTS_MAGIC")
    ELSE IF hdr.version # ELFHINTS_VERSION THEN Err("Invalid elfhints_hdr version")
    ELSE hints_dirlist(read_exact(file, hdr.strtab + hdr.dirlist, hdr.dirlistlen))

hints_read(file, h) == IF ~h.ok THEN h ELSE hints_header(file, elfhints_hdr(h.v))

hints_open(file) ==
    IF file_len(file) > ELFHINTS_MAXFILESIZE THEN Err("File larger than 16384")
    ELSE hints_read(file, read_exact(file, 0, ELFHINTS_HDR_LEN))

parse_ld_so_hints(file) == IF ~file.some THEN Err("No such file") ELSE hints_open(file.v)

\* What ldconfig writes: a u32 in little-endian order, a character as its byte.
le32(n) == <<n % 256, (n \div 256) % 256, (n \div 65536) % 256, n \div 16777216>>

ord(c) == CHOOSE b \in 0..127 : chr(b) = c

HintsHeader(magic, version, strtab, dirlist, dirlistlen) ==
    le32(magic) \o le32(version) \o le32(strtab) \o le32(0) \o le32(dirlist)
        \o le32(dirlistlen) \o [i \in 1..(ELFHINTS_HDR_LEN - 24) |-> 0]

\* The directory lists of the model's files; the last holds a byte that is no UTF-8.
HintsLists ==
    { [i \in DOMAIN s |-> ord(s[i])] :
        s \in {<<"/","l","i","b",":","/","o","p","t">>, <<"/","l","i","b",":","/","u","s","r","/","l","i","b",":","/","l","i","b">>, <<"/","n","o","n","e",":","/","o","p","t",":","/","s","r","v">>, <<>>} }
    \cup {<<ord("/"), ord("l"), ord("i"), ord("b"), 255>>}

\* The files: a header that is right or wrong in its magic or its version, with the
\* list behind it, a NUL after the list, and a length of the list that is 0, part
\* of it, all of it, the NUL too, or more than the file has; after that nothing, or
\* zero bytes up to 16 KiB, or one more.
HintsFiles ==
    { [bytes |-> HintsHeader(magic, version, at[1], at[2], len) \o list \o <<0>>, pad |-> pad] :
        magic \in {ELFHINTS_MAGIC, ELFHINTS_MAGIC + 1},
        version \in {ELFHINTS_VERSION, 2},
        at \in {<<0, ELFHINTS_HDR_LEN>>, <<ELFHINTS_HDR_LEN, 0>>, <<ELFHINTS_HDR_LEN, 5>>, <<0, 0>>},
        list \in HintsLists,
        len \in {0, 4, 9, 18, 19, 24},
        pad \in {0, ELFHINTS_MAXFILESIZE - 160, ELFHINTS_MAXFILESIZE - 128} }
    \cup { [bytes |-> SubSeq(HintsHeader(ELFHINTS_MAGIC, ELFHINTS_VERSION, 0, 0, 0), 1, n),
            pad |-> 0] : n \in {0, 24, ELFHINTS_HDR_LEN - 1, ELFHINTS_HDR_LEN} }

InitHints ==
    /\ \E file \in {Some(f) : f \in HintsFiles} \cup {None} :
          fs = [hints |-> file, meta |-> AllMeta]
    /\ args = NoArgs
    /\ ld_cache = None
    /\ config = NoConfig
    /\ deptree = <<>>
    /\ stack = <<>>
    /\ pc = "start"
    /\ newdynstr = <<>>
    /\ searchpaths = <<>>
    /\ output = <<>>
    /\ cfg_lines = <<>>
    /\ properties = <<>>

\* parse_ld_so_hints of the hints file.
ParseLdSoHints ==
    /\ pc = "start"
    /\ parsed(parse_ld_so_hints(fs.hints))
    /\ UNCHANGED <<fs, args, ld_cache, config, deptree, stack, newdynstr, output,
                   cfg_lines, properties>>

NextHints == ParseLdSoHints

SpecHints == InitHints /\ [][NextHints]_vars

HintsHdr == elfhints_hdr(SubSeq(fs.hints.v.bytes, 1, ELFHINTS_HDR_LEN))

\* The file is one the parse is to reject.
HintsRejected ==
    \/ ~fs.hints.some
    \/ file_len(fs.hints.v) > 16 * 1024
    \/ file_len(fs.hints.v) < ELFHINTS_HDR_LEN
    \/ HintsHdr.magic # ELFHINTS_MAGIC
    \/ HintsHdr.version # ELFHINTS_VERSION

\* The dirlistlen bytes at strtab + dirlist, less the NULs that end them.
HintsWindow ==
    trim_matches_nul([i \in 1..HintsHdr.dirlistlen |->
                         chr(byte_at(fs.hints.v, HintsHdr.strtab + HintsHdr.dirlist + i - 1))])

\* C21: the parse of a hints file fails when the file is longer than 16 KiB, shorter
\* than the header, or has a wrong magic or version; otherwise its result is the list
\* of the existing directories among the pieces between the ":" of the dirlistlen
\* bytes at strtab + dirlist, in their order and each once (none when dirlistlen is 0).
C21_HintsParse ==
    pc # "start" =>
       IF HintsRejected THEN pc = "error"
       ELSE /\ pc = "done"
            /\ [i \in DOMAIN searchpaths |-> searchpaths[i].path]
                  = FirstOccurrences(split(HintsWindow, ":"), {})


---------------------------------------------------------------------------
\* The bytes of glibc's ld.so.cache (elf/ld_so_cache.rs).  An image is the sequence
\* of the bytes of the file, each a number below 256; the numbers of the model's
\* images stay below 2^31.

CACHEMAGIC == <<"l","d",".","s","o","-","1",".","7",".","0">>

CACHEMAGIC_NEW == <<"g","l","i","b","c","-","l","d",".","s","o",".","c","a","c","h","e">>

CACHE_VERSION == <<"1",".","1">>

\* size_of of CacheFile, FileEntry, CacheFileNew, FileEntryNew, CacheExtension and
\* CacheExtensionSection, and align_of of CacheFileNew.
CACHE_FILE_LEN == 16

FILE_ENTRY_LEN == 12

CACHE_FILE_NEW_LEN == 48

FILE_ENTRY_NEW_LEN == 24

CACHE_EXTENSION_LEN == 8

CACHE_EXTENSION_SECTION_LEN == 16

ALIGN_CACHE_FILE_NEW == 4

CACHE_EXTENSION_TAG_GLIBC_HWCAPS == 1

\* Read::read of n bytes at pos: the bytes the file has there, zeros in the buffer
\* for those it has not.
read_bytes(img, pos, n) == [i \in 1..n |-> IF pos + i <= Len(img) THEN img[pos + i] ELSE 0]

\* The position of the reader after it.
read_pos(img, pos, n) ==
    IF pos >= Len(img) THEN pos ELSE IF pos + n > Len(img) THEN Len(img) ELSE pos + n

\* u32::from_ne_bytes and i32::from_ne_bytes on a little-endian machine.
from_ne_bytes(b) == b[1] + 256 * b[2] + 65536 * b[3] + 16777216 * b[4]

read_u32(img, pos) == from_ne_bytes(read_bytes(img, pos, 4))

\* read_u64: the value in its two halves.
read_u64(img, pos) ==
    [low |-> from_ne_bytes(read_bytes(img, pos, 4)),
     high |-> from_ne_bytes(SubSeq(read_bytes(img, pos, 8), 5, 8))]

as_bytes(s) == [i \in DOMAIN s |-> ord(s[i])]

\* CacheFileNew::from_reader: each field is read where the one before it ended, so
\* field k is read at the position that reading the bytes before it leaves.
CacheFileNew_from_reader(img, pos) ==
    [magic |-> read_bytes(img, read_pos(img, pos, 0), 17),
     version |-> read_bytes(img, read_pos(img, pos, 17), 3),
     nlibs |-> read_u32(img, read_pos(img, pos, 20)),
     flags |-> read_bytes(img, read_pos(img, pos, 28), 1)[1],
     extension_offset |-> read_u32(img, read_pos(img, pos, 32)),
     pos |-> read_pos(img, pos, CACHE_FILE_NEW_LEN)]

FileEntryNew_no_osversion(img, pos) ==
    [flags |-> read_u32(img, read_pos(img, pos, 0)),
     key |-> read_u32(img, read_pos(img, pos, 4)),
     value |-> read_u32(img, read_pos(img, pos, 8)),
     hwcap |-> read_u64(img, read_pos(img, pos, 12)),
     pos |-> read_pos(img, pos, 20)]

FileEntryNew_from_reader(img, pos) ==
    [flags |-> read_u32(img, read_pos(img, pos, 0)),
     key |-> read_u32(img, read_pos(img, pos, 4)),
     value |-> read_u32(img, read_pos(img, pos, 8)),
     hwcap |-> read_u64(img, read_pos(img, pos, 16)),
     pos |-> read_pos(img, pos, FILE_ENTRY_NEW_LEN)]

\* CacheFile::from_reader: the eleven bytes of the magic, and nlibs from the four
\* bytes that follow them.
CacheFile_from_reader(img, pos) ==
    [magic |-> read_bytes(img, read_pos(img, pos, 0), 11),
     nlibs |-> read_u32(img, read_pos(img, pos, 11)),
     pos |-> read_pos(img, pos, 15)]

FileEntry_from_reader(img, pos) ==
    [flags |-> read_u32(img, read_pos(img, pos, 0)),
     key |-> read_u32(img, read_pos(img, pos, 4)),
     value |-> read_u32(img, read_pos(img, pos, 8)),
     pos |-> read_pos(img, pos, FILE_ENTRY_LEN)]

check_cache_new_endian(flags) == flags = 0 \/ flags % 4 = 2

\* BufRead::read_until(0): the bytes from pos up to the first zero byte, with it,
\* or up to the end of the file.
RECURSIVE read_until_nul(_, _)
read_until_nul(img, pos) ==
    IF pos >= Len(img) THEN <<>>
    ELSE IF img[pos + 1] = 0 THEN <<0>>
    ELSE <<img[pos + 1]>> \o read_until_nul(img, pos + 1)

\* read_string: the reader at pos moves by cur - prev_off and reads a string; the
\* result holds the string and the new pos and prev_off.
read_string_at(img, at, cur) ==
    IF at < 0 THEN Err("invalid seek to a negative position")
    ELSE IF ~from_utf8(read_until_nul(img, at)).ok THEN Err("Invalid UTF8 value")
    ELSE Ok([value |-> trim_matches_nul(from_utf8(read_until_nul(img, at)).v),
             pos |-> at + Len(read_until_nul(img, at)),
             prev_off |-> cur + Len(read_until_nul(img, at))])

read_string(img, pos, prev_off, cur) == read_string_at(img, pos + (cur - prev_off), cur)

align_cache(value) ==
    (value + (ALIGN_CACHE_FILE_NEW - 1))
        - ((value + (ALIGN_CACHE_FILE_NEW - 1)) % ALIGN_CACHE_FILE_NEW)

\* The loop over the nlibs FileEntryNew records at pos: the offsets of the entries
\* the binary's architecture accepts, and the position after the records.
RECURSIVE new_offsets(_, _, _, _, _, _, _)
new_offsets(img, pos, nlibs, ei_class, e_machine, e_flags, acc) ==
    IF nlibs = 0 THEN [offsets |-> acc, pos |-> pos]
    ELSE new_offsets(img, FileEntryNew_from_reader(img, pos).pos, nlibs - 1,
                     ei_class, e_machine, e_flags,
                     IF check_file_entry_flags(FileEntryNew_from_reader(img, pos).flags,
                                               ei_class, e_machine, e_flags)
                     THEN Append(acc,
                            [key |-> FileEntryNew_from_reader(img, pos).key,
                             value |-> FileEntryNew_from_reader(img, pos).value,
                             hwcap |-> check_cache_hwcap_extension(
                                           FileEntryNew_from_reader(img, pos).hwcap)])
                     ELSE acc)

\* The bytes of cache_extension_magic, 0xeaa42174, in the file.
cache_extension_magic == <<116, 33, 164, 234>>

CacheExtension_from_reader(img, pos) ==
    [magic |-> read_bytes(img, read_pos(img, pos, 0), 4),
     count |-> read_u32(img, read_pos(img, pos, 4)),
     pos |-> read_pos(img, pos, CACHE_EXTENSION_LEN)]

CacheExtensionSection_from_reader(img, pos) ==
    [tag |-> read_u32(img, read_pos(img, pos, 0)),
     offset |-> read_u32(img, read_pos(img, pos, 8)),
     size |-> read_u32(img, read_pos(img, pos, 12)),
     pos |-> read_pos(img, pos, CACHE_EXTENSION_SECTION_LEN)]

\* The loop over the string offsets of a glibc-hwcaps section.
RECURSIVE hwcap_strings(_, _, _, _, _)
hwcap_string(img, s, idxs, r) ==
    IF ~s.ok THEN s
    ELSE hwcap_strings(img, s.v.pos, s.v.prev_off, Tail(idxs), Append(r, s.v.value))

hwcap_strings(img, pos, prev_off, idxs, r) ==
    IF idxs = <<>> THEN Ok([r |-> r, pos |-> pos, prev_off |-> prev_off])
    ELSE hwcap_string(img, read_string(img, pos, prev_off, Head(idxs)), idxs, r)

\* The loop over the sections of the extension.
RECURSIVE hwcap_sections(_, _, _, _, _)
hwcap_section_strings(img, s, count) ==
    IF ~s.ok THEN s ELSE hwcap_sections(img, s.v.pos, s.v.prev_off, count - 1, s.v.r)

hwcap_section(img, ext_sec, at, prev_off, count, r) ==
    IF ext_sec.tag # CACHE_EXTENSION_TAG_GLIBC_HWCAPS
    THEN hwcap_sections(img, ext_sec.pos, prev_off, count - 1, r)
    ELSE IF at < 0 THEN Err("invalid seek to a negative position")
    ELSE hwcap_section_strings(img,
            hwcap_strings(img, read_pos(img, at, 4 * (ext_sec.size \div 4)),
                          ext_sec.offset + ext_sec.size,
                          [j \in 1..(ext_sec.size \div 4) |->
                              read_u32(img, read_pos(img, at, 4 * (j - 1)))],
                          r),
            count)

hwcap_sections(img, pos, prev_off, count, r) ==
    IF count = 0 THEN Ok([r |-> r, pos |-> pos, prev_off |-> prev_off])
    ELSE hwcap_section(img, CacheExtensionSection_from_reader(img, pos),
                       CacheExtensionSection_from_reader(img, pos).pos
                           + (CacheExtensionSection_from_reader(img, pos).offset
                              - (prev_off + CACHE_EXTENSION_SECTION_LEN)),
                       prev_off + CACHE_EXTENSION_SECTION_LEN, count, r)

hwcap_extension(img, ext, cur) ==
    IF ext.magic # cache_extension_magic THEN Err("Invalid CacheExtension magic")
    ELSE hwcap_sections(img, ext.pos, cur + CACHE_EXTENSION_LEN, ext.count, <<>>)

parse_ld_so_cache_glibc_hwcap(img, pos, prev_off, cur) ==
    IF cur = 0 THEN Ok([r |-> <<>>, pos |-> pos, prev_off |-> prev_off])
    ELSE IF pos + (cur - prev_off) < 0 THEN Err("invalid seek to a negative position")
    ELSE hwcap_extension(img, CacheExtension_from_reader(img, pos + (cur - prev_off)), cur)

\* The keys and values of the offsets, read in the order of the offsets.
RECURSIVE read_strings(_, _, _, _, _)
read_value(img, key, value, offsets, acc) ==
    IF ~value.ok THEN value
    ELSE read_strings(img, value.v.pos, value.v.prev_off, Tail(offsets),
                      Append(acc, [key |-> key, value |-> value.v.value,
                                   hwcap |-> Head(offsets).hwcap]))

read_key(img, key, offsets, acc) ==
    IF ~key.ok THEN key
    ELSE read_value(img, key.v.value,
                    read_string(img, key.v.pos, key.v.prev_off, Head(offsets).value),
                    offsets, acc)

read_strings(img, pos, prev_off, offsets, acc) ==
    IF offsets = <<>> THEN Ok(acc)
    ELSE read_key(img, read_string(img, pos, prev_off, Head(offsets).key), offsets, acc)

new_cache_entries(strings, hwcap_idxs, supported) ==
    IF ~strings.ok THEN strings
    ELSE Ok(cache_entries(strings.v, hwcap_idxs, supported,
                          [ldsocache |-> <<>>, hwcapseen |-> <<>>]))

new_cache_strings(img, offsets, hwcap_idxs, supported) ==
    IF ~hwcap_idxs.ok THEN hwcap_idxs
    ELSE new_cache_entries(read_strings(img, hwcap_idxs.v.pos, hwcap_idxs.v.prev_off,
                                        offsets, <<>>),
                           hwcap_idxs.v.r, supported)

new_cache_offsets(img, hdr, offsets, supported) ==
    new_cache_strings(img, offsets.offsets,
        parse_ld_so_cache_glibc_hwcap(img, offsets.pos,
            CACHE_FILE_NEW_LEN + hdr.nlibs * FILE_ENTRY_NEW_LEN, hdr.extension_offset),
        supported)

new_cache_header(img, hdr, supported, ei_class, e_machine, e_flags) ==
    IF hdr.magic # as_bytes(CACHEMAGIC_NEW) THEN Err("Invalid new cache magic")
    ELSE IF hdr.version # as_bytes(CACHE_VERSION) THEN Err("Invalid new cache version")
    ELSE IF ~check_cache_new_endian(hdr.flags) THEN Err("Invalid new cache endianness")
    ELSE new_cache_offsets(img, hdr,
            new_offsets(img, hdr.pos, hdr.nlibs, ei_class, e_machine, e_flags, <<>>),
            supported)

\* parse_ld_so_cache_new on the bytes of a file, the new format starting at initial.
parse_ld_so_cache_new_image(img, initial, supported, ei_class, e_machine, e_flags) ==
    new_cache_header(img, CacheFileNew_from_reader(img, initial), supported,
                     ei_class, e_machine, e_flags)

\* The loop over the nlibs FileEntry records of the old format.
RECURSIVE old_offsets(_, _, _, _, _, _, _, _)
old_offsets(img, pos, nlibs, cache_off, ei_class, e_machine, e_flags, acc) ==
    IF nlibs = 0 THEN [offsets |-> acc, pos |-> pos]
    ELSE old_offsets(img, FileEntry_from_reader(img, pos).pos, nlibs - 1, cache_off,
                     ei_class, e_machine, e_flags,
                     IF check_file_entry_flags(FileEntry_from_reader(img, pos).flags,
                                               ei_class, e_machine, e_flags)
                     THEN Append(acc,
                            [key |-> FileEntry_from_reader(img, pos).key + cache_off,
                             value |-> FileEntry_from_reader(img, pos).value + cache_off,
                             hwcap |-> None])
                     ELSE acc)

RECURSIVE old_inserts(_, _)
old_inserts(strings, ldsocache) ==
    IF strings = <<>> THEN ldsocache
    ELSE old_inserts(Tail(strings), insert(ldsocache, Head(strings).key, Head(strings).value))

old_cache_entries(strings) ==
    IF ~strings.ok THEN strings ELSE Ok(old_inserts(strings.v, <<>>))

old_cache_offsets(img, offsets, cache_off) ==
    old_cache_entries(read_strings(img, offsets.pos, cache_off, offsets.offsets, <<>>))

old_cache_header(img, hdr, offset, supported, ei_class, e_machine, e_flags) ==
    IF Len(img) > offset + CACHE_FILE_NEW_LEN
    THEN parse_ld_so_cache_new_image(img, offset, supported, ei_class, e_machine, e_flags)
    ELSE IF hdr.magic # as_bytes(CACHEMAGIC) THEN Err("Invalid cache magic")
    ELSE old_cache_offsets(img,
            old_offsets(img, hdr.pos, hdr.nlibs, CACHE_FILE_LEN + hdr.nlibs * FILE_ENTRY_LEN,
                        ei_class, e_machine, e_flags, <<>>),
            CACHE_FILE_LEN + hdr.nlibs * FILE_ENTRY_LEN)

old_cache_file(img, hdr, supported, ei_class, e_machine, e_flags) ==
    IF (Len(img) - CACHE_FILE_LEN) \div FILE_ENTRY_LEN < hdr.nlibs
    THEN Err("Invalid cache file")
    ELSE old_cache_header(img, hdr, align_cache(CACHE_FILE_LEN + hdr.nlibs * FILE_ENTRY_LEN),
                          supported, ei_class, e_machine, e_flags)

\* parse_ld_so_cache_old on the bytes of a file of CACHE_FILE_LEN bytes or more.
parse_ld_so_cache_old(img, supported, ei_class, e_machine, e_flags) ==
    old_cache_file(img, CacheFile_from_reader(img, 0), supported,
                   ei_class, e_machine, e_flags)

\* parse_ld_so_cache on the bytes of the file.
parse_ld_so_cache_image(img, supported, ei_class, e_machine, e_flags) ==
    IF Len(img) < Len(CACHEMAGIC) THEN Err("failed to fill whole buffer")
    ELSE IF read_bytes(img, 0, Len(CACHEMAGIC)) = as_bytes(CACHEMAGIC)
    THEN parse_ld_so_cache_old(img, supported, ei_class, e_machine, e_flags)
    ELSE parse_ld_so_cache_new_image(img, 0, supported, ei_class, e_machine, e_flags)

---------------------------------------------------------------------------
\* The cache files ldconfig writes (glibc's struct cache_file, file_entry,
\* cache_file_new and file_entry_new of dl-cache.h), as the inputs of the parser.

cstr(s) == as_bytes(s) \o <<0>>

\* The string table of the entries, key and value of each in turn, and the offset
\* of the string of entry i in it.
RECURSIVE string_table(_)
string_table(entries) ==
    IF entries = <<>> THEN <<>>
    ELSE cstr(Head(entries).key) \o cstr(Head(entries).value) \o string_table(Tail(entries))

key_offset(entries, i) == Len(string_table(SubSeq(entries, 1, i - 1)))

value_offset(entries, i) == key_offset(entries, i) + Len(entries[i].key) + 1

RECURSIVE concat(_)
concat(seqs) == IF seqs = <<>> THEN <<>> ELSE Head(seqs) \o concat(Tail(seqs))

\* struct cache_file_new with its entries and strings; the offsets of the strings
\* count from the start of the struct.
cache_file_new(entries, flags, extension_offset) ==
    as_bytes(CACHEMAGIC_NEW) \o as_bytes(CACHE_VERSION)
        \o le32(Len(entries)) \o le32(Len(string_table(entries)))
        \o <<flags, 0, 0, 0>> \o le32(extension_offset) \o le32(0) \o le32(0) \o le32(0)
        \o concat([i \in DOMAIN entries |->
                     le32(entries[i].flags)
                         \o le32(CACHE_FILE_NEW_LEN + Len(entries) * FILE_ENTRY_NEW_LEN
                                 + key_offset(entries, i))
                         \o le32(CACHE_FILE_NEW_LEN + Len(entries) * FILE_ENTRY_NEW_LEN
                                 + value_offset(entries, i))
                         \o le32(0)
                         \o le32(entries[i].hwcap.low) \o le32(entries[i].hwcap.high)])
        \o string_table(entries)

\* struct cache_file with its first n entries: the magic, the byte that aligns
\* nlibs, nlibs and the entries, their offsets counting from the end of the entries.
cache_file(entries, n, strings_at) ==
    as_bytes(CACHEMAGIC) \o <<0>> \o le32(n)
        \o concat([i \in 1..n |->
                     le32(entries[i].flags)
                         \o le32(strings_at + key_offset(entries, i))
                         \o le32(strings_at + value_offset(entries, i))])

\* A file of the old format alone.
cache_file_old(entries) == cache_file(entries, Len(entries), 0) \o string_table(entries)

\* A file of both formats: the old region with the first n entries, then the new
\* region where the old one ends (its end is aligned whatever n is); the old entries
\* share the strings of the new region.
cache_file_both(entries, n) ==
    cache_file(entries, n, CACHE_FILE_NEW_LEN + Len(entries) * FILE_ENTRY_NEW_LEN)
        \o cache_file_new(entries, 2, 0)

\* The offsets of the names in the strings that follow the extension's index array.
name_offset(names, i) == Len(concat([j \in 1..(i - 1) |-> cstr(names[j])]))

\* struct cache_extension with one glibc-hwcaps section at offset at: the header,
\* the section, the array of the offsets of the names, the names.
cache_extension(names, at) ==
    cache_extension_magic \o le32(1)
        \o le32(CACHE_EXTENSION_TAG_GLIBC_HWCAPS) \o le32(0)
        \o le32(at + CACHE_EXTENSION_LEN + CACHE_EXTENSION_SECTION_LEN)
        \o le32(4 * Len(names))
        \o concat([i \in DOMAIN names |->
                     le32(at + CACHE_EXTENSION_LEN + CACHE_EXTENSION_SECTION_LEN
                          + 4 * Len(names) + name_offset(names, i))])
        \o concat([i \in DOMAIN names |-> cstr(names[i])])

\* A file of the new format with the extension after its strings, aligned.
cache_file_new_ext(entries, names) ==
    cache_file_new(entries, 2, align_cache(Len(cache_file_new(entries, 2, 0))))
        \o [i \in 1..(align_cache(Len(cache_file_new(entries, 2, 0)))
                      - Len(cache_file_new(entries, 2, 0))) |-> 0]
        \o cache_extension(names, align_cache(Len(cache_file_new(entries, 2, 0))))

\* The entries ldconfig writes in the model's files.
ImagePool ==
    { CacheEntry(FLAG_ELF_LIBC6 + FLAG_X8664_LIB64, N_a, D_lib64, Plain),
      CacheEntry(FLAG_ELF_LIBC6 + FLAG_X8664_LIB64, N_b, D_lib64, Plain),
      CacheEntry(FLAG_ELF_LIBC6 + FLAG_X8664_LIB64, N_a, <<"/","l","i","b","6","4","/","g","l","i","b","c","-","h","w","c","a","p","s","/","x","8","6","-","6","4","-","v","2">>, Hwcap(0)),
      CacheEntry(FLAG_ELF_LIBC6, N_a, <<"/","l","i","b">>, Plain) }

\* The most entries a file of the model has.
MaxImageEntries == 2

RECURSIVE ImageLists(_)
ImageLists(n) ==
    IF n = 0 THEN {<<>>}
    ELSE ImageLists(n - 1) \cup {Append(l, e) : l \in ImageLists(n - 1), e \in ImagePool}

ImageEntries ==
    {l \in ImageLists(MaxImageEntries) : \A i, j \in DOMAIN l : i # j => l[i] # l[j]}

NoHwcap(l) == \A i \in DOMAIN l : l[i].hwcap = Plain

\* What ldconfig wrote, and the bytes of the file.
CacheImages ==
    { [kind |-> "new", entries |-> l, nold |-> 0, flags |-> f,
       image |-> cache_file_new(l, f, 0)] : l \in {x \in ImageEntries : NoHwcap(x)}, f \in {0, 2, 3} }
    \cup { [kind |-> "old", entries |-> l, nold |-> Len(l), flags |-> 0,
            image |-> cache_file_old(l)] : l \in {x \in ImageEntries : NoHwcap(x)} }
    \cup UNION { { [kind |-> "both", entries |-> l, nold |-> n, flags |-> 2,
                    image |-> cache_file_both(l, n)] : n \in 0..Len(l) } :
                 l \in {x \in ImageEntries : NoHwcap(x)} }
    \cup { [kind |-> "ext", entries |-> l, nold |-> 0, flags |-> 2,
            image |-> cache_file_new_ext(l, <<<<"x","8","6","-","6","4","-","v","2">>>>)] : l \in ImageEntries }

InitCacheImage ==
    /\ \E file \in CacheImages, level \in {1, 2} :
          fs = [cache |-> file, hwcap_supported |-> hwcap_supported(level)]
    /\ args \in CacheBinaries
    /\ ld_cache = None
    /\ config = NoConfig
    /\ deptree = <<>>
    /\ stack = <<>>
    /\ pc = "start"
    /\ newdynstr = <<>>
    /\ searchpaths = <<>>
    /\ output = <<>>
    /\ cfg_lines = <<>>
    /\ properties = <<>>

\* The bytes of the cache are parsed for the binary of the command line.
ParseLdSoCacheImage ==
    /\ pc = "start"
    /\ ld_cache' = parse_ld_so_cache_image(fs.cache.image, fs.hwcap_supported,
                                           args.ei_class, args.e_machine, args.e_flags)
    /\ pc' = "done"
    /\ UNCHANGED <<fs, args, config, deptree, stack, newdynstr, searchpaths, output, cfg_lines, properties>>

NextCacheImage == ParseLdSoCacheImage

SpecCacheImage == InitCacheImage /\ [][NextCacheImage]_vars

\* The map of the pairs of the written entries.
Written(entries) ==
    [k \in {entries[i].key : i \in DOMAIN entries} |->
        (CHOOSE e \in {entries[i] : i \in DOMAIN entries} : e.key = k).value]

DistinctKeys(entries) == \A i, j \in DOMAIN entries : i # j => entries[i].key # entries[j].key

AllMatch(entries) ==
    \A i \in DOMAIN entries :
        check_file_entry_flags(entries[i].flags, args.ei_class, args.e_machine, args.e_flags)

\* C22: parsing a well-formed file of the new format without extensions, whose N
\* entries have distinct keys and all match the binary, gives the map of exactly
\* the N (key, value) pairs written.
C22_RoundTrip ==
    (/\ pc = "done"
     /\ "cache" \in DOMAIN fs
     /\ fs.cache.kind = "new"
     /\ fs.cache.flags \in {0, 2}
     /\ DistinctKeys(fs.cache.entries)
     /\ AllMatch(fs.cache.entries))
    => (ld_cache.ok /\ ld_cache.v = Written(fs.cache.entries))

C22_Witness ==
    /\ pc = "done"
    /\ "cache" \in DOMAIN fs
    /\ fs.cache.kind = "new"
    /\ DistinctKeys(fs.cache.entries)
    /\ AllMatch(fs.cache.entries)
    /\ Len(fs.cache.entries) = 2
    /\ ld_cache.ok
    /\ ld_cache.v = Written(fs.cache.entries)

SameResult(r, s) == r.ok = s.ok /\ (r.ok => r.v = s.v)

\* C24: a file whose old region of nlibs entries is followed, at the aligned end of
\* that region, by a new region is parsed as the new parser parses it from that
\* offset.
C24_OldThenNew ==
    (pc = "done" /\ "cache" \in DOMAIN fs /\ fs.cache.kind = "both")
    => SameResult(ld_cache,
                  parse_ld_so_cache_new_image(fs.cache.image,
                      align_cache(CACHE_FILE_LEN + fs.cache.nold * FILE_ENTRY_LEN),
                      fs.hwcap_supported, args.ei_class, args.e_machine, args.e_flags))

---------------------------------------------------------------------------
\* The architecture filter of the cache entries alone (check_file_entry_flags).

\* The float ABI of a RISC-V binary: the bits of EF_RISCV_FLOAT_ABI in e_flags.
RiscvFloatAbi(e_flags) == BitAnd(e_flags, 6)

\* Bits of e_flags that the filter does not name: the EABI version 5 of an ARM
\* binary and the compressed instructions of a RISC-V binary.
OtherArmBits(e_flags) == e_flags + 5 * 2^24

OtherRiscvBits(e_flags) == e_flags + 1

\* The flags of the model's entries.
EntryFlags ==
    { FLAG_ELF_LIBC6,
      FLAG_ELF_LIBC6 + FLAG_ARM_LIBHF, FLAG_ELF_LIBC6 + FLAG_ARM_LIBSF,
      FLAG_ELF_LIBC6 + FLAG_RISCV_FLOAT_ABI_SOFT, FLAG_ELF_LIBC6 + FLAG_RISCV_FLOAT_ABI_DOUBLE,
      FLAG_ELF_LIBC6 + FLAG_X8664_LIB64, FLAG_ELF_LIBC6 + FLAG_AARCH64_LIB64, 0 }

\* The binaries of the model: ARM and RISC-V with each float ABI, alone and with
\* another bit of e_flags, and binaries of machines whose e_flags are not read.
FlagBinaries ==
    { [ei_class |-> "ELFCLASS32", e_machine |-> "EM_ARM", e_flags |-> f] :
        f \in {0, EF_ARM_VFP_FLOAT, EF_ARM_SOFT_FLOAT,
               OtherArmBits(EF_ARM_VFP_FLOAT), OtherArmBits(EF_ARM_SOFT_FLOAT)} }
    \cup { [ei_class |-> "ELFCLASS64", e_machine |-> "EM_RISCV", e_flags |-> f] :
             f \in {EF_RISCV_FLOAT_ABI_SOFT, EF_RISCV_FLOAT_ABI_DOUBLE, 2,
                    OtherRiscvBits(EF_RISCV_FLOAT_ABI_SOFT),
                    OtherRiscvBits(EF_RISCV_FLOAT_ABI_DOUBLE)} }
    \cup { [ei_class |-> c, e_machine |-> m, e_flags |-> 0] :
             c \in {"ELFCLASS32", "ELFCLASS64"}, m \in {"EM_X86_64", "EM_AARCH64", "EM_386"} }

InitFlags ==
    /\ \E f \in EntryFlags : fs = [entry_flags |-> f]
    /\ args \in FlagBinaries
    /\ ld_cache = None
    /\ config = NoConfig
    /\ deptree = <<>>
    /\ stack = <<>>
    /\ pc = "start"
    /\ newdynstr = <<>>
    /\ searchpaths = <<>>
    /\ output = <<>>
    /\ cfg_lines = <<>>
    /\ properties = <<>>

\* The filter is asked about the entry; output holds its answer.
CheckFileEntryFlags ==
    /\ pc = "start"
    /\ output' = <<check_file_entry_flags(fs.entry_flags, args.ei_class, args.e_machine,
                                          args.e_flags)>>
    /\ pc' = "done"
    /\ UNCHANGED <<fs, args, ld_cache, config, deptree, stack, newdynstr, searchpaths, cfg_lines, properties>>

NextFlags == CheckFileEntryFlags

SpecFlags == InitFlags /\ [][NextFlags]_vars

\* C23: an ARM binary with the EF_ARM_VFP_FLOAT bit accepts the entries LIBHF|LIBC6
\* and LIBC6, one with the EF_ARM_SOFT_FLOAT bit the entries LIBSF|LIBC6 and LIBC6;
\* a RISC-V binary of the double-float ABI accepts the double-ABI entries, one of
\* the soft-float ABI the soft-ABI entries; whatever other bits e_flags has.
C23_FlagFilter ==
    (pc = "done" /\ "entry_flags" \in DOMAIN fs)
    => /\ (args.e_machine = "EM_ARM" /\ BitAnd(args.e_flags, EF_ARM_VFP_FLOAT) = EF_ARM_VFP_FLOAT)
          => (output[1] <=> fs.entry_flags \in {FLAG_ELF_LIBC6 + FLAG_ARM_LIBHF, FLAG_ELF_LIBC6})
       /\ (args.e_machine = "EM_ARM" /\ BitAnd(args.e_flags, EF_ARM_SOFT_FLOAT) = EF_ARM_SOFT_FLOAT)
          => (output[1] <=> fs.entry_flags \in {FLAG_ELF_LIBC6 + FLAG_ARM_LIBSF, FLAG_ELF_LIBC6})
       /\ (args.e_machine = "EM_RISCV"
              /\ RiscvFloatAbi(args.e_flags) = EF_RISCV_FLOAT_ABI_DOUBLE)
          => (output[1] <=> fs.entry_flags = FLAG_ELF_LIBC6 + FLAG_RISCV_FLOAT_ABI_DOUBLE)
       /\ (args.e_machine = "EM_RISCV"
              /\ RiscvFloatAbi(args.e_flags) = EF_RISCV_FLOAT_ABI_SOFT)
          => (output[1] <=> fs.entry_flags = FLAG_ELF_LIBC6 + FLAG_RISCV_FLOAT_ABI_SOFT)

---------------------------------------------------------------------------
\* parse_ld_so_conf call by call (ld_conf.rs): the stack holds one activation of
\* parse_ld_so_conf for every file being read, the innermost first.  An activation
\* has the lines still to read and its set r; while it is in parse_ld_so_conf_glob,
\* entries holds the paths of the glob still to read and gr the set of the glob.

ConfFrame(filename, lines, r, entries, gr) ==
    [filename |-> filename, lines |-> lines, r |-> r, entries |-> entries, gr |-> gr]

\* The depth of recursion the stack of the thread has room for.
MaxIncludeDepth == 4

\* An error in the activation at the top of the stack, as the parse of the command
\* line returns it: every parse_ld_so_conf_glob on the way gives its own message.
include_error(e) ==
    /\ pc' = "error"
    /\ output' = <<IF Len(stack) > 1 THEN "Invalid path in ld.so.conf include file" ELSE e>>
    /\ stack' = <<>>
    /\ UNCHANGED searchpaths

\* The parse of the file of the command line opens it.
IncludeOpen ==
    /\ pc = "start"
    /\ IF read_lines(args.file).some
       THEN /\ stack' = <<ConfFrame(args.file, read_lines(args.file).v, <<>>, None, <<>>)>>
            /\ pc' = "parse"
            /\ UNCHANGED <<output, searchpaths>>
       ELSE include_error("Could not open the filename")
    /\ UNCHANGED <<fs, args, ld_cache, config, deptree, newdynstr, cfg_lines, properties>>

include_line(frame, line) ==
    IF ~line.some THEN frame
    ELSE IF starts_with(line.v, <<"i","n","c","l","u","d","e">>)
    THEN [frame EXCEPT
            !.entries = Some(glob(glob_filename(parent(frame.filename),
                                                split_whitespace(line.v, <<>>)[2]))),
            !.gr = <<>>]
    ELSE IF ~starts_with(line.v, <<"h","w","c","a","p">>) THEN [frame EXCEPT !.r = add_path(@, line.v)]
    ELSE frame

\* One line of the loop of parse_ld_so_conf, up to the glob of an include.
IncludeLine ==
    /\ pc = "parse"
    /\ ~Head(stack).entries.some
    /\ Head(stack).lines # <<>>
    /\ IF /\ parse_line(Head(Head(stack).lines)).some
          /\ starts_with(parse_line(Head(Head(stack).lines)).v, <<"i","n","c","l","u","d","e">>)
          /\ Len(split_whitespace(parse_line(Head(Head(stack).lines)).v, <<>>)) < 2
       THEN include_error("Invalid ld.so.conf")
       ELSE /\ stack' = <<include_line([Head(stack) EXCEPT !.lines = Tail(@)],
                                       parse_line(Head(Head(stack).lines)))>>
                           \o Tail(stack)
            /\ UNCHANGED <<pc, output, searchpaths>>
    /\ UNCHANGED <<fs, args, ld_cache, config, deptree, newdynstr, cfg_lines, properties>>

\* The loop of parse_ld_so_conf_glob calls parse_ld_so_conf for the next path: the
\* call opens the file, when the stack has room for it.
IncludeEntry ==
    /\ pc = "parse"
    /\ Head(stack).entries.some
    /\ Head(stack).entries.v # <<>>
    /\ IF ~read_lines(Head(Head(stack).entries.v)).some
       THEN include_error("Invalid path in ld.so.conf include file")
       ELSE IF Len(stack) < MaxIncludeDepth
       THEN /\ stack' = <<ConfFrame(Head(Head(stack).entries.v),
                                    read_lines(Head(Head(stack).entries.v)).v,
                                    <<>>, None, <<>>)>> \o stack
            /\ UNCHANGED <<pc, output, searchpaths>>
       ELSE /\ pc' = "overflow"
            /\ UNCHANGED <<stack, output, searchpaths>>
    /\ UNCHANGED <<fs, args, ld_cache, config, deptree, newdynstr, cfg_lines, properties>>

\* parse_ld_so_conf_glob returns: its set is merged into that of the file.
IncludeGlob ==
    /\ pc = "parse"
    /\ Head(stack).entries = Some(<<>>)
    /\ stack' = <<[Head(stack) EXCEPT !.r = merge_searchpaths(@, Head(stack).gr),
                                      !.entries = None]>> \o Tail(stack)
    /\ UNCHANGED <<fs, args, ld_cache, config, deptree, pc, newdynstr, searchpaths, output,
                   cfg_lines, properties>>

\* parse_ld_so_conf returns Ok: to the loop of the glob that called it, or to main.
IncludeReturn ==
    /\ pc = "parse"
    /\ ~Head(stack).entries.some
    /\ Head(stack).lines = <<>>
    /\ IF Len(stack) = 1
       THEN /\ searchpaths' = Head(stack).r
            /\ pc' = "done"
            /\ stack' = <<>>
       ELSE /\ stack' = <<[stack[2] EXCEPT !.gr = merge_searchpaths(@, Head(stack).r),
                                           !.entries = Some(Tail(@.v))]>>
                           \o Tail(Tail(stack))
            /\ UNCHANGED <<pc, searchpaths>>
    /\ UNCHANGED <<fs, args, ld_cache, config, deptree, newdynstr, output, cfg_lines,
                   properties>>

NextInclude == IncludeOpen \/ IncludeLine \/ IncludeEntry \/ IncludeGlob \/ IncludeReturn

\* The lines of the top-level file: directories, an include of the files of sub and
\* an include whose pattern matches the file itself.
IncludeLines == { <<"/","l","i","b">>, <<"/","o","p","t">>, <<"i","n","c","l","u","d","e"," ","s","u","b","/","*">>, <<"i","n","c","l","u","d","e"," ","l","d",".","s","o",".","*">> }

RECURSIVE IncludeLists(_)
IncludeLists(n) ==
    IF n = 0 THEN {<<>>}
    ELSE IncludeLists(n - 1) \cup {Append(l, x) : l \in IncludeLists(n - 1), x \in IncludeLines}

\* The configuration files: /etc/sub/a.conf may include the top-level file, which
\* may include it, or itself; /etc/sub/u.conf may be a file that does not open.
IncludeFiles ==
    { FnOf({ <<<<"/","e","t","c","/","l","d",".","s","o",".","c","o","n","f">>, top>>, <<<<"/","e","t","c","/","s","u","b","/","a",".","c","o","n","f">>, a>> } \cup b) :
        top \in IncludeLists(MaxLines),
        a \in { <<<<"/","o","p","t">>>>, <<<<"i","n","c","l","u","d","e"," ","/","e","t","c","/","l","d",".","s","o",".","c","o","n","f">>, <<"/","s","r","v">>>>, <<<<"/","s","r","v">>, <<"i","n","c","l","u","d","e"," ","a",".","*">>>>,
                <<<<"i","n","c","l","u","d","e"," ","i","n","n","e","r","/","*">>, <<"/","l","i","b">>>> },
        b \in { {}, {<<<<"/","e","t","c","/","s","u","b","/","i","n","n","e","r","/","c",".","c","o","n","f">>, <<<<"/","m","n","t">>, <<"/","s","r","v">>>>>>} } }

InitInclude ==
    /\ \E conf \in IncludeFiles, u \in {{}, {<<"/","e","t","c","/","s","u","b","/","u",".","c","o","n","f">>}} :
          fs = [conf |-> conf, meta |-> ConfMeta, unopenable |-> u]
    /\ args = [file |-> <<"/","e","t","c","/","l","d",".","s","o",".","c","o","n","f">>]
    /\ ld_cache = None
    /\ config = NoConfig
    /\ deptree = <<>>
    /\ stack = <<>>
    /\ pc = "start"
    /\ newdynstr = <<>>
    /\ searchpaths = <<>>
    /\ output = <<>>
    /\ cfg_lines = <<>>
    /\ properties = <<>>

SpecInclude == InitInclude /\ [][NextInclude]_vars

\* C29: parse_ld_so_conf terminates for every set of configuration files, also
\* when the include directives form a cycle.  A parse that terminates never reads a
\* file inside the parse of that same file: the inner parse reads what the outer one
\* read and comes to the same include, without end.
C29_IncludeTerminates ==
    \A i, j \in DOMAIN stack :
        (i # j /\ "filename" \in DOMAIN stack[i] /\ "filename" \in DOMAIN stack[j])
           => stack[i].filename # stack[j].filename

=============================================================================
